---- MODULE Spec2Model ----
(***************************************************************************)
(* Verification model of the authentication layer of Axum.On.Steroids:    *)
(*   - the error taxonomy and its verbosity-driven rendering (error.rs),   *)
(*   - the TTL cache of the JSON Web Key set (state/jwks.rs, jwt.rs),      *)
(*     with jwt_validate run by each request against the guarded snapshot, *)
(*   - the JWT validation algorithm (extractor/jwt.rs, state.rs, jwt.rs),  *)
(*   - the credential extractors and the composed extractors that verify   *)
(*     what they extracted (extractor/*.rs, state.rs),                     *)
(*   - the Optional extractor and the middlewares in front of a handler.   *)
(* Each part has its own specification (SpecError, SpecCache, SpecJwt,     *)
(* SpecAuth, SpecService) over the variables it uses; the other variables  *)
(* keep their initial value.                                               *)
(***************************************************************************)
EXTENDS Integers, Sequences, FiniteSets, TLC

VARIABLES
    \* ---- error model -------------------------------------------------
    error_verbosity,   \* ApiStateInner.error_verbosity (configuration)
    failure,           \* the failure the current request ran into
    api_error,         \* the constructed ApiError / ResourceError
    response,          \* the rendered response
    \* ---- key-set cache -----------------------------------------------
    refresher,         \* which refresher of the source is in use
    constructed,       \* result of JwkRefresher::new / ApiState::new
    holder,            \* RwLock<JwkHolder>: the snapshot
    dirty,             \* ghost: holder is between its two assignments
    readers,           \* RwLock: tasks holding a read guard
    writer,            \* RwLock: task holding the write guard
    now,               \* Instant::now(), in ticks
    upstream,          \* the remote JWKS endpoint
    pc,                \* per request task: position in get / refresh_jwks
    loc,               \* per request task: local variables and ghosts
    \* ---- JWT validation ----------------------------------------------
    jwt,               \* the presented token
    jwks,              \* the key-set snapshot handed to the validator
    jwt_result,        \* result of validate
    \* ---- extractors --------------------------------------------------
    request,           \* the headers of the request being handled
    extractor,         \* the extractor handling it
    calls,             \* ghost: the provider / state calls the extractor made
    extracted,         \* what the extractor returned
    \* ---- configuration, logging, services ----------------------------
    validate_nbf,      \* JwksProvider::validate_nbf (configuration)
    logs,              \* the warn and error records logged for the request
    service            \* the middleware or handler serving the request

error_vars == <<error_verbosity, failure, api_error, response>>
cache_vars == <<refresher, constructed, holder, dirty, readers, writer, now,
                upstream, pc, loc>>
jwt_vars   == <<jwt, jwks, jwt_result>>
auth_vars  == <<request, extractor, calls, extracted>>
svc_vars   == <<validate_nbf, logs, service>>
vars       == <<error_vars, cache_vars, jwt_vars, auth_vars, svc_vars>>

(***************************************************************************)
(*                          ERROR MODEL (error.rs)                         *)
(***************************************************************************)

\* Option::None, and the marker of a field the error struct does not have.
None   == "None"
Absent == "Absent"

ErrorVerbosity == {"None", "StatusCode", "Message", "Type", "Full"}

should_generate_error_context(verbosity) == verbosity = "Full"

\* bool::then_some / bool::then
then_some(cond, value) == IF cond THEN value ELSE None

NO_CONTENT             == 204
BAD_REQUEST            == 400
UNAUTHORIZED           == 401
FORBIDDEN              == 403
NOT_FOUND              == 404
METHOD_NOT_ALLOWED     == 405
UNSUPPORTED_MEDIA_TYPE == 415
UNPROCESSABLE_ENTITY   == 422
INTERNAL_SERVER_ERROR  == 500

\* The shape shared by all error structs: fields a struct does not have are
\* Absent, an Option field that is None is None.
Err(kind, type, verbosity, reason, expected_schema, err, context) ==
    [kind |-> kind, type |-> type, verbosity |-> verbosity,
     reason |-> reason, expected_schema |-> expected_schema,
     error |-> err, context |-> context]

InternalServerError_from_generic_error(verbosity, err) ==
    Err("InternalServerError", Absent, verbosity, Absent, Absent,
        then_some(should_generate_error_context(verbosity), err), Absent)

\* Default::default(): the verbosity is ErrorVerbosity::default()
InternalServerError_default ==
    Err("InternalServerError", Absent, "StatusCode", Absent, Absent, None, Absent)

ApiError_default == InternalServerError_default

ApiError_from_generic_error(verbosity, err) ==
    InternalServerError_from_generic_error(verbosity, err)

QueryRejections == {"FailedToDeserializeQueryString", "OtherQueryRejection"}

\* the Result of serde_yaml::to_string(&schema_for!(T))
SchemaResults == {"schema_for!(T)", "serde_yaml::Error"}

\* QueryError::from_query_rejection: the context is generated, and the
\* failure to serialize the expected schema noticed, at Full only
QueryError_from_query_rejection(verbosity, query_rejection, schema) ==
    IF query_rejection # "FailedToDeserializeQueryString"
    THEN ApiError_from_generic_error(verbosity, query_rejection)
    ELSE IF should_generate_error_context(verbosity)
         THEN IF schema = "serde_yaml::Error"
              THEN ApiError_from_generic_error(verbosity, schema)
              ELSE Err("Query", "DeserializeError", verbosity,
                       "query_rejection.body_text()", schema, Absent, Absent)
         ELSE Err("Query", "DeserializeError", verbosity, None, None, Absent, Absent)

JsonRejections == {"JsonDataError", "JsonSyntaxError", "MissingJsonContentType",
                   "BytesRejection"}

JsonBodyErrorType(json_rejection) ==
    CASE json_rejection = "JsonDataError"          -> "DataError"
      [] json_rejection = "JsonSyntaxError"        -> "SyntaxError"
      [] json_rejection = "MissingJsonContentType" -> "MissingJsonContentType"

\* JsonBodyError::from_json_rejection: as for the query
JsonBodyError_from_json_rejection(verbosity, json_rejection, schema) ==
    IF json_rejection \notin {"JsonDataError", "JsonSyntaxError", "MissingJsonContentType"}
    THEN ApiError_from_generic_error(verbosity, json_rejection)
    ELSE IF should_generate_error_context(verbosity)
         THEN IF schema = "serde_yaml::Error"
              THEN ApiError_from_generic_error(verbosity, schema)
              ELSE Err("JsonBody", JsonBodyErrorType(json_rejection), verbosity,
                       "json_rejection.body_text()", schema, Absent, Absent)
         ELSE Err("JsonBody", JsonBodyErrorType(json_rejection), verbosity,
                  None, None, Absent, Absent)

\* JsonBodyError::new(verbosity, type, reason, expected_schema), which
\* extractor/json.rs calls: the detail it is given is kept when the verbosity
\* asks for the context of errors, as by the other constructors named new
JsonBodyError_new(verbosity, type, reason, expected_schema) ==
    Err("JsonBody", type, verbosity,
        then_some(should_generate_error_context(verbosity), reason),
        then_some(should_generate_error_context(verbosity), expected_schema),
        Absent, Absent)

\* FailedToDeserializePathParams with its ErrorKind, or another rejection
PathRejections == {"Message", "InvalidUtf8InPathParam", "ParseError",
                   "ParseErrorAtIndex", "ParseErrorAtKey",
                   "WrongNumberOfParameters", "MissingPathParams"}

PathError_from_path_rejection(verbosity, path_rejection) ==
    IF path_rejection \in {"Message", "InvalidUtf8InPathParam", "ParseError",
                           "ParseErrorAtIndex", "ParseErrorAtKey"}
    THEN Err("Path", "DeserializeError", verbosity,
             then_some(should_generate_error_context(verbosity),
                       "path_rejection.body_text()"),
             Absent, Absent, Absent)
    ELSE ApiError_from_generic_error(verbosity, path_rejection)

MethodNotAllowedError_new(verbosity) ==
    Err("MethodNotAllowed", Absent, verbosity, Absent, Absent, Absent, Absent)

NotFoundError_new(verbosity) ==
    Err("NotFound", Absent, verbosity, Absent, Absent, Absent, Absent)

ApiKeyErrorTypes == {"Missing", "InvalidChars", "Invalid"}

ApiKeyError_reason(type) ==
    CASE type = "Missing"      -> "API key is missing"
      [] type = "InvalidChars" -> "API key contains invalid characters: {err}"
      [] type = "Invalid"      -> "API key invalid"

ApiKeyError_new(verbosity, type) ==
    Err("ApiKey", type, verbosity,
        then_some(should_generate_error_context(verbosity), ApiKeyError_reason(type)),
        Absent, Absent, Absent)

BasicAuthErrorTypes == {"AuthMissing", "AuthInvalidChars", "Decode",
                        "AuthInvalidUTF8", "InvalidBasic", "Invalid"}

BasicAuthError_reason(type) ==
    CASE type = "AuthMissing"      -> "Authorization header is missing"
      [] type = "AuthInvalidChars" -> "Authorization header contains invalid characters: {err}"
      [] type = "Decode"           -> "Authorization header could not be decoded: {err}"
      [] type = "InvalidBasic"     -> "Authorization header is invalid Basic"
      [] type = "AuthInvalidUTF8"  -> "Decoded authorization header contains invalid characters: {err}"
      [] type = "Invalid"          -> "Basic auth is invalid"

BasicAuthError_new(verbosity, type) ==
    Err("BasicAuth", type, verbosity,
        then_some(should_generate_error_context(verbosity), BasicAuthError_reason(type)),
        Absent, Absent, Absent)

BearerErrorTypes == {"AuthMissing", "AuthInvalidChars", "InvalidBearer"}

BearerError_reason(type) ==
    CASE type = "AuthMissing"      -> "Authorization header is missing"
      [] type = "AuthInvalidChars" -> "Authorization header contains invalid characters: {err}"
      [] type = "InvalidBearer"    -> "Authorization header is invalid Bearer"

BearerError_new(verbosity, type) ==
    Err("Bearer", type, verbosity,
        then_some(should_generate_error_context(verbosity), BearerError_reason(type)),
        Absent, Absent, Absent)

JwtErrorTypes == {"Invalid", "ExpiredSignature", "Forbidden"}

JwtError_reason(type) ==
    CASE type = "Invalid"          -> "JWT is invalid: {err}"
      [] type = "ExpiredSignature" -> "JWT has expired"
      [] type = "Forbidden"        -> "User does not have a valid role"

JwtError_new(verbosity, type) ==
    Err("Jwt", type, verbosity,
        then_some(should_generate_error_context(verbosity), JwtError_reason(type)),
        Absent, Absent, Absent)

ValidationError_from_validation_errors(verbosity, validation_errors) ==
    Err("Validation", Absent, verbosity,
        then_some(should_generate_error_context(verbosity), validation_errors),
        Absent, Absent, Absent)

\* route/books/get_book.rs: the error type of a ResourceError
GetBookErrorTypes == {"NotFound", "IdTooBig"}

GetBookErrorType_context(error_type) ==
    CASE error_type = "NotFound" -> "Book with id {id} not found"
      [] error_type = "IdTooBig" -> "Id {id} is too big"

GetBookErrorType_status_code(error_type) ==
    CASE error_type = "NotFound" -> NOT_FOUND
      [] error_type = "IdTooBig" -> BAD_REQUEST

GetBookErrorType_message(error_type) ==
    CASE error_type = "NotFound" -> "Book not found"
      [] error_type = "IdTooBig" -> "Id too big"

ResourceError_new(verbosity, error_type) ==
    Err("Resource", error_type, verbosity, Absent, Absent, Absent,
        then_some(should_generate_error_context(verbosity),
                  GetBookErrorType_context(error_type)))

ApiError_verbosity(e) == e.verbosity

ApiError_message(e) ==
    CASE e.kind = "InternalServerError" -> "An internal server error has occurred"
      [] e.kind = "Query"               -> "Failed to parse query parameters"
      [] e.kind = "JsonBody"            -> "Failed to parse request body"
      [] e.kind = "Path"                -> "Failed to parse path parameters"
      [] e.kind = "MethodNotAllowed"    -> "Method not allowed"
      [] e.kind = "NotFound"            -> "The requested resource was not found"
      [] e.kind = "ApiKey"              -> "API key error"
      [] e.kind = "BasicAuth"           -> "Basic auth error"
      [] e.kind = "Bearer"              -> "Bearer auth error"
      [] e.kind = "Jwt"                 -> "JWT error"
      [] e.kind = "Validation"          -> "Validation error"

ApiError_status_code(e) ==
    CASE e.kind = "InternalServerError" -> INTERNAL_SERVER_ERROR
      [] e.kind = "Query"               -> BAD_REQUEST
      [] e.kind = "JsonBody"            ->
            (CASE e.type = "DataError"              -> UNPROCESSABLE_ENTITY
               [] e.type = "SyntaxError"            -> BAD_REQUEST
               [] e.type = "MissingJsonContentType" -> UNSUPPORTED_MEDIA_TYPE)
      [] e.kind = "Path"                -> BAD_REQUEST
      [] e.kind = "MethodNotAllowed"    -> METHOD_NOT_ALLOWED
      [] e.kind = "NotFound"            -> NOT_FOUND
      [] e.kind = "ApiKey"              ->
            (CASE e.type = "Missing"      -> UNAUTHORIZED
               [] e.type = "InvalidChars" -> UNAUTHORIZED
               [] e.type = "Invalid"      -> FORBIDDEN)
      [] e.kind = "BasicAuth"           -> UNAUTHORIZED
      [] e.kind = "Bearer"              -> UNAUTHORIZED
      [] e.kind = "Jwt"                 ->
            (CASE e.type \in {"Invalid", "ExpiredSignature"} -> UNAUTHORIZED
               [] e.type = "Forbidden"                       -> FORBIDDEN)
      [] e.kind = "Validation"          -> UNPROCESSABLE_ENTITY

\* mutant: a JWT failure gets no challenge
ApiError_headers_NoJwtChallenge(e) ==
    CASE e.kind = "BasicAuth" -> <<{<<"WWW-Authenticate", "Basic">>}>>
      [] e.kind = "Bearer"    -> <<{<<"WWW-Authenticate", "Bearer">>}>>
      [] OTHER                -> <<>>

\* Option<HeaderMap>: <<m>> is Some(m), <<>> is None; a HeaderMap is a set of
\* (name, value) pairs
ApiError_headers(e) ==
    CASE e.kind = "BasicAuth"         -> <<{<<"WWW-Authenticate", "Basic">>}>>
      [] e.kind \in {"Bearer", "Jwt"} -> <<{<<"WWW-Authenticate", "Bearer">>}>>
      [] OTHER                        -> <<>>

\* GetBookErrorType::headers
GetBookErrorType_headers(error_type) == <<>>

unwrap_or_default(headers) == IF headers = <<>> THEN {} ELSE headers[1]

\* impl From<ApiError> for ApiErrorResponse
ApiErrorResponse_from(e) ==
    [error |-> e,
     message |-> IF ApiError_verbosity(e) = "None" THEN "" ELSE ApiError_message(e)]

\* impl From<ResourceError> for ResourceErrorResponse
ResourceErrorResponse_from(e) ==
    [error |-> e, message |-> GetBookErrorType_message(e.type)]

\* the serialized error struct when the body has none
NoDetail == [type |-> Absent, reason |-> Absent, expected_schema |-> Absent,
             error |-> Absent, context |-> Absent]

EmptyBody == [shape |-> "empty", message |-> Absent, error_type |-> Absent,
              error |-> NoDetail]

\* Json(ErrorMessage::from(self))
ErrorMessage_from(r) == [shape |-> "message", message |-> r.message,
                         error_type |-> Absent, error |-> NoDetail]

\* Json(self) for ApiErrorResponse: #[serde(flatten)] error with
\* tag = "error_type", content = "error"; verbosity and the inner err are skipped
ApiErrorResponse_json(r) ==
    [shape |-> "full", message |-> r.message, error_type |-> r.error.kind,
     error |-> [type |-> r.error.type, reason |-> r.error.reason,
                expected_schema |-> r.error.expected_schema,
                error |-> r.error.error, context |-> Absent]]

\* Json(self) for ResourceErrorResponse: the error type is flattened
\* (tag = "error_type"), the context is renamed "error"
ResourceErrorResponse_json(r) ==
    [shape |-> "full", message |-> r.message, error_type |-> r.error.type,
     error |-> [type |-> Absent, reason |-> Absent, expected_schema |-> Absent,
                error |-> Absent, context |-> r.error.context]]

Response(status, headers, body) == [status |-> status, headers |-> headers, body |-> body]

\* mutant: verbosity None keeps the status code of the error
ApiErrorResponse_into_response_KeepStatus(r) ==
    LET headers == unwrap_or_default(ApiError_headers(r.error)) IN
    CASE ApiError_verbosity(r.error) \in {"None", "StatusCode"} ->
            Response(ApiError_status_code(r.error), headers, EmptyBody)
      [] ApiError_verbosity(r.error) = "Message" ->
            Response(ApiError_status_code(r.error), headers, ErrorMessage_from(r))
      [] ApiError_verbosity(r.error) \in {"Type", "Full"} ->
            Response(ApiError_status_code(r.error), headers, ApiErrorResponse_json(r))

\* impl IntoResponse for ApiErrorResponse
ApiErrorResponse_into_response(r) ==
    LET headers == unwrap_or_default(ApiError_headers(r.error)) IN
    CASE ApiError_verbosity(r.error) = "None" ->
            Response(NO_CONTENT, {}, EmptyBody)
      [] ApiError_verbosity(r.error) = "StatusCode" ->
            Response(ApiError_status_code(r.error), headers, EmptyBody)
      [] ApiError_verbosity(r.error) = "Message" ->
            Response(ApiError_status_code(r.error), headers, ErrorMessage_from(r))
      [] ApiError_verbosity(r.error) \in {"Type", "Full"} ->
            Response(ApiError_status_code(r.error), headers, ApiErrorResponse_json(r))

\* impl IntoResponse for ResourceErrorResponse
ResourceErrorResponse_into_response(r) ==
    LET headers == unwrap_or_default(GetBookErrorType_headers(r.error.type)) IN
    CASE r.error.verbosity = "None" ->
            Response(NO_CONTENT, {}, EmptyBody)
      [] r.error.verbosity = "StatusCode" ->
            Response(GetBookErrorType_status_code(r.error.type), headers, EmptyBody)
      [] r.error.verbosity = "Message" ->
            Response(GetBookErrorType_status_code(r.error.type), headers,
                     ErrorMessage_from(r))
      [] r.error.verbosity \in {"Type", "Full"} ->
            Response(GetBookErrorType_status_code(r.error.type), headers,
                     ResourceErrorResponse_json(r))

\* impl IntoResponse for ApiError / for ResourceError
into_response(e) ==
    IF e.kind = "Resource"
    THEN ResourceErrorResponse_into_response(ResourceErrorResponse_from(e))
    ELSE ApiErrorResponse_into_response(ApiErrorResponse_from(e))

\* the records logged while a constructor builds the error:
\* InternalServerError::from_generic_error and InternalServerError::default
\* log an error record, and every InternalServerError is built by one of
\* them; the other constructors log nothing
Logged(e) == IF e.kind = "InternalServerError" THEN <<"error">> ELSE <<>>

\* ApiPath::from_request_parts on a rejection of axum's Path: a warn record,
\* then PathError::from_path_rejection
ApiPath_from_request_parts(verbosity, path_rejection) ==
    LET e == PathError_from_path_rejection(verbosity, path_rejection) IN
    [err |-> e, logs |-> <<"warn">> \o Logged(e)]

\* ApiQuery::from_request_parts on a rejection of axum's Query, whatever
\* the rejection: a warn record, then the expected schema is serialized, whose
\* failure is returned as an internal error, then a QueryError is built from
\* the text of the rejection and the schema, at every verbosity
ApiQuery_from_request_parts(verbosity, query_rejection, schema) ==
    LET e == IF schema = "serde_yaml::Error"
             THEN InternalServerError_from_generic_error(verbosity, schema)
             ELSE Err("Query", Absent, verbosity, "query_rejection.body_text()",
                      schema, Absent, Absent)
    IN [err |-> e, logs |-> <<"warn">> \o Logged(e)]

\* ApiJson::from_request on a rejection of axum's Json: a rejection that is
\* none of the three JSON failures is returned as an internal error before
\* the warn record is written; for the others a warn record, then the
\* expected schema is serialized, whose failure is returned as an internal
\* error, then JsonBodyError::new is given the type, the text of the
\* rejection and the schema
ApiJson_from_request(verbosity, json_rejection, schema) ==
    IF json_rejection \notin {"JsonDataError", "JsonSyntaxError", "MissingJsonContentType"}
    THEN LET e == InternalServerError_from_generic_error(verbosity, json_rejection) IN
         [err |-> e, logs |-> Logged(e)]
    ELSE LET e == IF schema = "serde_yaml::Error"
                  THEN InternalServerError_from_generic_error(verbosity, schema)
                  ELSE JsonBodyError_new(verbosity, JsonBodyErrorType(json_rejection),
                                         "json_rejection.body_text()", schema)
         IN [err |-> e, logs |-> <<"warn">> \o Logged(e)]

\* ValidatedFromRequestParts::from_request_parts and
\* ValidatedFromRequest::from_request when extracted.validate() fails: a warn
\* record, then ValidationError::from_validation_errors
Validated_from_request(verbosity, errors) ==
    LET e == ValidationError_from_validation_errors(verbosity, errors) IN
    [err |-> e, logs |-> <<"warn">> \o Logged(e)]

(***************************************************************************)
(* The failures a request can run into: the constructor of error.rs or the *)
(* extractor that reports it, the argument it is given and, where the      *)
(* expected schema is serialized, the result of that.                      *)
(***************************************************************************)
Failure(ctor, arg) == [ctor |-> ctor, arg |-> arg, schema |-> Absent]

SchemaFailure(ctor, arg, schema) == [ctor |-> ctor, arg |-> arg, schema |-> schema]

Failures ==
       {Failure("InternalServerError::from_generic_error", a) : a \in {"io::Error"}}
  \cup {Failure("InternalServerError::default", Absent)}
  \cup {SchemaFailure("QueryError::from_query_rejection", a, r) :
            a \in QueryRejections, r \in SchemaResults}
  \cup {SchemaFailure("JsonBodyError::from_json_rejection", a, r) :
            a \in JsonRejections, r \in SchemaResults}
  \cup {Failure("PathError::from_path_rejection", a) : a \in PathRejections}
  \cup {Failure("MethodNotAllowedError::new", Absent)}
  \cup {Failure("NotFoundError::new", Absent)}
  \cup {Failure("ApiKeyError::new", a) : a \in ApiKeyErrorTypes}
  \cup {Failure("BasicAuthError::new", a) : a \in BasicAuthErrorTypes}
  \cup {Failure("BearerError::new", a) : a \in BearerErrorTypes}
  \cup {Failure("JwtError::new", a) : a \in JwtErrorTypes}
  \cup {Failure("ValidationError::from_validation_errors", a) : a \in {"ValidationErrors"}}
  \cup {Failure("ResourceError::new", a) : a \in GetBookErrorTypes}

\* The error value the named constructor builds for the failure
Construct(verbosity, f) ==
    CASE f.ctor = "InternalServerError::from_generic_error" ->
            InternalServerError_from_generic_error(verbosity, f.arg)
      [] f.ctor = "InternalServerError::default" -> ApiError_default
      [] f.ctor = "QueryError::from_query_rejection" ->
            QueryError_from_query_rejection(verbosity, f.arg, f.schema)
      [] f.ctor = "JsonBodyError::from_json_rejection" ->
            JsonBodyError_from_json_rejection(verbosity, f.arg, f.schema)
      [] f.ctor = "ApiQuery::from_request_parts" ->
            ApiQuery_from_request_parts(verbosity, f.arg, f.schema).err
      [] f.ctor = "ApiJson::from_request" ->
            ApiJson_from_request(verbosity, f.arg, f.schema).err
      [] f.ctor = "PathError::from_path_rejection" ->
            PathError_from_path_rejection(verbosity, f.arg)
      [] f.ctor = "MethodNotAllowedError::new" -> MethodNotAllowedError_new(verbosity)
      [] f.ctor = "NotFoundError::new" -> NotFoundError_new(verbosity)
      [] f.ctor = "ApiKeyError::new" -> ApiKeyError_new(verbosity, f.arg)
      [] f.ctor = "BasicAuthError::new" -> BasicAuthError_new(verbosity, f.arg)
      [] f.ctor = "BearerError::new" -> BearerError_new(verbosity, f.arg)
      [] f.ctor = "JwtError::new" -> JwtError_new(verbosity, f.arg)
      [] f.ctor = "ValidationError::from_validation_errors" ->
            ValidationError_from_validation_errors(verbosity, f.arg)
      [] f.ctor = "ResourceError::new" -> ResourceError_new(verbosity, f.arg)

\* The detail fields of an error value (fields the struct has)
DetailFields == {"reason", "expected_schema", "error", "context"}
DetailOf(e) == {fld \in DetailFields : e[fld] # Absent}

(***************************************************************************)
(*                          JWT VALIDATION                                 *)
(***************************************************************************)

MaxKeys == 2                \* keys in a snapshot

\* header.kid / jwk.common.key_id: Option<String>, NoKid is Option::None
NoKid == 0
Kids  == 1 .. MaxKeys

\* jsonwebtoken::Algorithm, and the jsonwebtoken::jwk::KeyAlgorithm values
\* a key may declare (RSA1_5 is a key algorithm that is no signing algorithm)
Algorithms    == {"HS256", "HS384", "HS512", "ES256", "ES384", "RS256", "RS384",
                  "RS512", "PS256", "PS384", "PS512", "EdDSA"}
KeyAlgorithms == {"RS256", "RSA1_5"}

\* Algorithm::from_str
Algorithm_from_str(s) == IF s \in Algorithms THEN <<s>> ELSE <<>>

\* a key of the set: its id, its AlgorithmParameters family, whether n and e
\* are decodable base64, and its declared key algorithm
Jwk(kid, family, components_ok, key_algorithm) ==
    [kid |-> kid, family |-> family, components_ok |-> components_ok,
     key_algorithm |-> key_algorithm]

JwksOf(kid) ==
    { Jwk(kid, fam, c, ka) : fam \in {"RSA", "EllipticCurve"}, c \in BOOLEAN,
                             ka \in KeyAlgorithms \cup {None} }

\* the key sets: key i of the set has key id i
JwkSets ==
    UNION { { ks \in [1 .. n -> UNION {JwksOf(k) : k \in Kids}] :
                \A i \in 1 .. n : ks[i].kid = i } : n \in 0 .. MaxKeys }

\* the outcomes of jsonwebtoken::decode::<C> for a token and its key: Ok, or
\* the kind of its error (Json: the claims do not deserialize into C)
VerifyOutcomes == {"Ok", "InvalidSignature", "ExpiredSignature", "ImmatureSignature",
                   "InvalidAudience",
                   "Json"}

\* a token: whether its header segment decodes, its kid, and the outcome of
\* verifying its signature and claims
Tokens ==
    [header_ok : BOOLEAN, kid : {NoKid} \cup Kids \cup {MaxKeys + 1},
     verify : VerifyOutcomes]

NoJwk == [kid |-> NoKid]

\* JwkSet::find: the first key of the set with that key id
RECURSIVE find(_, _)
find(set, kid) ==
    IF set = <<>> THEN NoJwk
    ELSE IF Head(set).kid = kid THEN Head(set)
    ELSE find(Tail(set), kid)

JwtOk(claims)          == [ok |-> TRUE, value |-> claims, source |-> None]
JwtErr(variant, source) == [ok |-> FALSE, value |-> variant, source |-> source]

\* decode::<C>(jwt, &decoding_key, &validation)? with validation.validate_nbf
\* = nbf: a token whose only defect is a not-before time in the future fails
\* with ImmatureSignature when nbf is set and is accepted when it is not
decode(token, nbf) ==
    IF token.verify = "Ok" THEN JwtOk("claims")
    ELSE IF token.verify = "ImmatureSignature" /\ ~nbf THEN JwtOk("claims")
    ELSE JwtErr("TokenInvalid", token.verify)

\* mutant: the declared key algorithm is looked at before the key is built
validate_AlgorithmFirst(token, set, nbf) ==
    IF ~token.header_ok THEN JwtErr("DecodeHeader", "InvalidToken")
    ELSE IF token.kid = NoKid THEN JwtErr("NoKid", None)
    ELSE LET jwk == find(set, token.kid) IN
         IF jwk = NoJwk THEN JwtErr("NoMatchingJWK", None)
         ELSE IF jwk.family # "RSA" THEN JwtErr("UnsupportedAlgorithm", None)
         ELSE IF jwk.key_algorithm = None THEN JwtErr("KeyAlgorithmNotFound", None)
         ELSE IF ~jwk.components_ok THEN JwtErr("DecodingKey", "Base64")
         ELSE IF Algorithm_from_str(jwk.key_algorithm) = <<>>
              THEN JwtErr("ValidationAlgorithm", "InvalidAlgorithmName")
         ELSE decode(token, nbf)

\* JwtValidator::validate, and the body of ApiState::jwt_validate after the
\* snapshot is obtained
validate(token, set, nbf) ==
    IF ~token.header_ok THEN JwtErr("DecodeHeader", "InvalidToken")
    ELSE IF token.kid = NoKid THEN JwtErr("NoKid", None)
    ELSE LET jwk == find(set, token.kid) IN
         IF jwk = NoJwk THEN JwtErr("NoMatchingJWK", None)
         ELSE IF jwk.family # "RSA" THEN JwtErr("UnsupportedAlgorithm", None)
         ELSE IF ~jwk.components_ok THEN JwtErr("DecodingKey", "Base64")
         ELSE IF jwk.key_algorithm = None THEN JwtErr("KeyAlgorithmNotFound", None)
         ELSE IF Algorithm_from_str(jwk.key_algorithm) = <<>>
              THEN JwtErr("ValidationAlgorithm", "InvalidAlgorithmName")
         ELSE decode(token, nbf)

\* ApiState::jwt_validate: self.jwk_refresher.get().await? comes first, and
\* validation.validate_nbf = true whatever is configured
jwt_validate(token, get_ok, set) ==
    IF ~get_ok THEN JwtErr("Jwks", "JwksRefreshError")
    ELSE validate(token, set, TRUE)

\* no token presented, no validation result
NoToken  == [header_ok |-> FALSE, kid |-> -1, verify |-> None]
NoResult == [ok |-> FALSE, value |-> None, source |-> None]

(***************************************************************************)
(*             KEY-SET CACHE (state/jwks.rs, jwt.rs, state.rs)             *)
(***************************************************************************)

NumProcs    == 2      \* concurrent request tasks
MaxVersion  == 2      \* key rotations of the upstream
TicksPerSec == 2      \* resolution of Instant relative to as_secs()
TimeToLive  == 1      \* time_to_live_in_seconds

\* the clock stops one tick after a snapshot taken at 0 has become stale
MaxTime == (TimeToLive + 1) * TicksPerSec + 1

Procs == 1..NumProcs

NoProc    == 0      \* no task (the constructor, as the writer of a field)
NoJwks    == 0      \* no key set
Malformed == -1     \* a response body that is not a JwkSet
NoInstant == -1     \* no Instant
NoHolder  == [jwks |-> NoJwks, last_updated |-> NoInstant, by_jwks |-> NoProc,
              by_ts |-> NoProc]

\* the document the upstream serves at a version: a rotation replaces the
\* key, the key of version v has key id v
JwkSetOf(version) ==
    IF version = NoJwks THEN <<>> ELSE <<Jwk(version, "RSA", TRUE, "RS256")>>

\* the tokens presented to jwt_validate: one signed with the key of the
\* latest rotation, one signed with the first key whose not-before time lies
\* in the future
CacheTokens ==
    {[header_ok |-> TRUE, kid |-> MaxVersion, verify |-> "Ok"],
     [header_ok |-> TRUE, kid |-> 1, verify |-> "ImmatureSignature"]}

\* The two refreshers of the source: JWKSRefresher (state/jwks.rs) logs a
\* failed refresh in get, JwkRefresher (jwt.rs) returns it with `?`.
Refreshers == {"JWKSRefresher", "JwkRefresher"}

\* Duration::as_secs: whole seconds
as_secs(ticks) == ticks \div TicksPerSec

\* mutant: the age is compared with >=
is_stale_Ge(last_updated) == as_secs(now - last_updated) >= TimeToLive

\* mutant: after the TTL the refresher waits a further TTL before it fetches
is_stale_TwiceTtl(last_updated) == as_secs(now - last_updated) > 2 * TimeToLive

\* last_updated.elapsed().as_secs() > self.time_to_live_in_seconds
is_stale(last_updated) == as_secs(now - last_updated) > TimeToLive

\* mutant: read access is granted while the write guard is out
ReadLockFree_NoExclusion == TRUE

\* RwLock::read resolves when no write guard is out
ReadLockFree == writer = NoProc

\* mutant: write access is granted without exclusion
WriteLockFree_NoExclusion == TRUE

\* RwLock::write resolves when no guard is out
WriteLockFree == writer = NoProc /\ readers = {}

\* mutant: the read guard of get is kept across the refresh
ReadersAfterGet_KeepGuard(p) == readers \cup {p}

\* `self.holder.read().await.last_updated`: the temporary read guard is
\* dropped at the end of the statement, before refresh_jwks is called
ReadersAfterGet(p) == readers

\* mutant: a failed first fetch yields a refresher without key set
JwkRefresher_new_Lenient(up, t) ==
    IF up.mode = "ok"
    THEN [constructed |-> "ok",
          holder |-> [jwks |-> up.ver, last_updated |-> t, by_jwks |-> NoProc,
                      by_ts |-> NoProc]]
    ELSE [constructed |-> "ok",
          holder |-> [jwks |-> NoJwks, last_updated |-> t, by_jwks |-> NoProc,
                      by_ts |-> NoProc]]

\* JwkRefresher::new / JWKSRefresher::new followed by ApiState::new:
\* obtain_jwks(..).await? then the holder is built; an error leaves no value
JwkRefresher_new(up, t) ==
    CASE up.mode = "ok" ->
            [constructed |-> "ok",
             holder |-> [jwks |-> up.ver, last_updated |-> t, by_jwks |-> NoProc,
                      by_ts |-> NoProc]]
      [] up.mode = "down"      -> [constructed |-> "Err(Fetch)", holder |-> NoHolder]
      [] up.mode = "malformed" -> [constructed |-> "Err(Parse)", holder |-> NoHolder]

\* the locals of a request task: the token it presents, the response body
\* and key set of its fetch, the result of jwt_validate; swapped is a ghost
\* that outlives the request
NewLoc(swapped) ==
    [token |-> NoToken, body |-> NoJwks, jwks |-> NoJwks,
     \* ghosts of the read in get: the age exceeded the TTL, exceeded it by a
     \* whole second, number of fetches started, read while a refresh was pending
     over_ttl |-> FALSE, over_ttl_by_sec |-> FALSE, attempts |-> 0, raced |-> FALSE,
     fetch_err |-> None, logged |-> FALSE, seen_torn |-> FALSE,
     result |-> NoResult, swapped |-> swapped]

\* get after refresh_jwks returned Err: JWKSRefresher logs and goes on to
\* return the holder, JwkRefresher returns the error to jwt_validate, which
\* returns JwtValidationError::Jwks
on_refresh_error(l, err) ==
    IF refresher = "JWKSRefresher"
    THEN [pc |-> "got", loc |-> [l EXCEPT !.fetch_err = err, !.logged = TRUE]]
    ELSE [pc |-> "done",
          loc |-> [l EXCEPT !.fetch_err = err,
                            !.result = jwt_validate(l.token, FALSE, <<>>)]]

\* ---- the values the variables of a part keep while another part runs ----
NoFailure  == Failure(None, None)
NoError    == Err(None, None, None, None, None, None, None)
NoResponse == Response(0, {}, EmptyBody)

ErrorIdle == /\ error_verbosity = "StatusCode"
             /\ failure = NoFailure
             /\ api_error = NoError
             /\ response = NoResponse

CacheIdle == /\ refresher = "JWKSRefresher"
             /\ constructed = "pending"
             /\ holder = NoHolder
             /\ dirty = FALSE
             /\ readers = {}
             /\ writer = NoProc
             /\ now = 0
             /\ upstream = [ver |-> 1, mode |-> "ok"]
             /\ pc = [p \in Procs |-> "idle"]
             /\ loc = [p \in Procs |-> NewLoc(NoJwks)]

\* no request, no extractor running
NoRequest   == [api_key |-> <<>>, authorization |-> <<>>, arrived |-> FALSE]
NoExtracted == [ok |-> FALSE, kind |-> None, value |-> <<>>]

AuthIdle == /\ request = NoRequest
            /\ extractor = None
            /\ calls = <<>>
            /\ extracted = NoExtracted

\* what the model keeps of a request served by a middleware or a handler:
\* the ResponseFuture of the Basic-auth middleware (future is its Kind, state
\* its State, auth the authenticate future), the request extensions, and
\* ghosts telling whether the inner service was called and polled, whether
\* the handler ran and with which argument
Service(kind, route) ==
    [kind |-> kind, route |-> route, future |-> None, state |-> None, auth |-> None,
     credential |-> <<>>, extensions |-> {}, polls |-> 0,
     inner_called |-> FALSE, inner_polled |-> FALSE,
     handler_ran |-> FALSE, handler_arg |-> <<>>, done |-> FALSE]

NoService == Service(None, None)

SvcIdle == /\ validate_nbf = TRUE
           /\ logs = <<>>
           /\ service = NoService

JwtIdle == /\ jwt = NoToken
           /\ jwks = <<>>
           /\ jwt_result = NoResult

\* ---- actions of the cache ------------------------------------------------

UpstreamModes == {"ok", "down", "malformed"}

\* Before startup: the refresher in use, the state of the upstream
InitCache ==
    /\ refresher \in Refreshers
    /\ constructed = "pending"
    /\ holder = NoHolder
    /\ dirty = FALSE
    /\ readers = {}
    /\ writer = NoProc
    /\ now = 0
    /\ upstream \in [ver : {1}, mode : UpstreamModes]
    /\ pc = [p \in Procs |-> "idle"]
    /\ loc = [p \in Procs |-> NewLoc(NoJwks)]
    /\ validate_nbf \in BOOLEAN
    /\ logs = <<>>
    /\ service = NoService
    /\ ErrorIdle /\ JwtIdle /\ AuthIdle

\* ApiState::new: JwkRefresher::new(..).await.context(..)?
New ==
    /\ constructed = "pending"
    /\ LET r == JwkRefresher_new(upstream, now) IN
         /\ constructed' = r.constructed
         /\ holder' = r.holder
    /\ UNCHANGED <<svc_vars, auth_vars, error_vars, jwt_vars, refresher, dirty, readers, writer, now, upstream, pc, loc>>

\* the clock advances
Tick ==
    /\ constructed = "ok"
    /\ now < MaxTime
    /\ now' = now + 1
    /\ UNCHANGED <<svc_vars, auth_vars, error_vars, jwt_vars, refresher, constructed, holder, dirty, readers, writer,
                   upstream, pc, loc>>

\* the identity provider publishes a new key set
Rotate ==
    /\ constructed = "ok"
    /\ upstream.ver < MaxVersion
    /\ upstream' = [upstream EXCEPT !.ver = @ + 1]
    /\ UNCHANGED <<svc_vars, auth_vars, error_vars, jwt_vars, refresher, constructed, holder, dirty, readers, writer,
                   now, pc, loc>>

\* the upstream goes down, serves a malformed document, or recovers
SetMode(m) ==
    /\ constructed = "ok"
    /\ upstream.mode # m
    /\ upstream' = [upstream EXCEPT !.mode = m]
    /\ UNCHANGED <<svc_vars, auth_vars, error_vars, jwt_vars, refresher, constructed, holder, dirty, readers, writer,
                   now, pc, loc>>

\* the positions of a task inside refresh_jwks
Refreshing == {"sending", "parsing", "wait_write", "write_ts"}

\* a request calls jwt_validate(jwt), which calls get: it starts awaiting
\* self.holder.read()
Start(p, token) ==
    /\ constructed = "ok"
    /\ pc[p] = "idle"
    /\ pc' = [pc EXCEPT ![p] = "get_read"]
    /\ loc' = [loc EXCEPT ![p] = [NewLoc(loc[p].swapped) EXCEPT !.token = token]]
    /\ UNCHANGED <<svc_vars, auth_vars, error_vars, jwt_vars, refresher, constructed, holder, dirty, readers, writer,
                   now, upstream>>

\* get: last_updated is copied under the read lock and its age is tested;
\* a stale snapshot makes the task call refresh_jwks, which calls obtain_jwks
GetRead(p) ==
    /\ pc[p] = "get_read"
    /\ ReadLockFree
    /\ LET lu == holder.last_updated
           l  == [loc[p] EXCEPT !.over_ttl = (now - lu > TimeToLive * TicksPerSec),
                                !.over_ttl_by_sec =
                                    (now - lu >= (TimeToLive + 1) * TicksPerSec),
                                !.seen_torn = dirty \/ holder.by_jwks # holder.by_ts]
       IN IF is_stale(lu)
          THEN /\ pc' = [pc EXCEPT ![p] = "sending"]
               /\ loc' = [loc EXCEPT ![p] =
                             [l EXCEPT !.attempts = @ + 1,
                                       !.raced = \E q \in Procs \ {p} :
                                                    pc[q] \in Refreshing]]
          ELSE /\ pc' = [pc EXCEPT ![p] = "got"]
               /\ loc' = [loc EXCEPT ![p] = l]
    /\ readers' = ReadersAfterGet(p)
    /\ UNCHANGED <<svc_vars, auth_vars, error_vars, jwt_vars, refresher, constructed, holder, dirty,
                   writer, now, upstream>>

\* obtain_jwks: http_client.get(jwks_uri).send().await.map_err(Fetch)?
Send(p) ==
    /\ pc[p] = "sending"
    /\ IF upstream.mode = "down"
       THEN LET r == on_refresh_error(loc[p], "Fetch") IN
              /\ pc' = [pc EXCEPT ![p] = r.pc]
              /\ loc' = [loc EXCEPT ![p] = r.loc]
       ELSE /\ pc' = [pc EXCEPT ![p] = "parsing"]
            /\ loc' = [loc EXCEPT ![p].body =
                          IF upstream.mode = "malformed" THEN Malformed
                                                         ELSE upstream.ver]
    /\ UNCHANGED <<svc_vars, auth_vars, error_vars, jwt_vars, refresher, constructed, holder, dirty, readers, writer,
                   now, upstream>>

\* obtain_jwks: .json::<JwkSet>().await.map_err(Parse)?
Parse(p) ==
    /\ pc[p] = "parsing"
    /\ IF loc[p].body = Malformed
       THEN LET r == on_refresh_error(loc[p], "Parse") IN
              /\ pc' = [pc EXCEPT ![p] = r.pc]
              /\ loc' = [loc EXCEPT ![p] = r.loc]
       ELSE /\ pc' = [pc EXCEPT ![p] = "wait_write"]
            /\ loc' = [loc EXCEPT ![p].jwks = loc[p].body, ![p].body = NoJwks]
    /\ UNCHANGED <<svc_vars, auth_vars, error_vars, jwt_vars, refresher, constructed, holder, dirty, readers, writer,
                   now, upstream>>

\* refresh_jwks: let mut inner = self.holder.write().await; inner.jwks = jwks;
\* (the fetched key set is moved into the holder; swapped remembers it)
WriteJwks(p) ==
    /\ pc[p] = "wait_write"
    /\ WriteLockFree
    /\ writer' = p
    /\ holder' = [holder EXCEPT !.jwks = loc[p].jwks, !.by_jwks = p]
    /\ dirty' = TRUE
    /\ pc' = [pc EXCEPT ![p] = "write_ts"]
    /\ loc' = [loc EXCEPT ![p].jwks = NoJwks, ![p].swapped = loc[p].jwks]
    /\ UNCHANGED <<svc_vars, auth_vars, error_vars, jwt_vars, refresher, constructed, readers, now, upstream>>

\* refresh_jwks: inner.last_updated = Instant::now(); Ok(()) drops the guard
WriteLastUpdated(p) ==
    /\ pc[p] = "write_ts"
    /\ holder' = [holder EXCEPT !.last_updated = now, !.by_ts = p]
    /\ dirty' = FALSE
    /\ writer' = IF writer = p THEN NoProc ELSE writer
    /\ pc' = [pc EXCEPT ![p] = "got"]
    /\ UNCHANGED <<svc_vars, auth_vars, error_vars, jwt_vars, refresher, constructed, readers, now, upstream, loc>>

\* jwt_validate: let jwks_guard = self.get().await?.read().await;
ReadGuard(p) ==
    /\ pc[p] = "got"
    /\ ReadLockFree
    /\ readers' = readers \cup {p}
    /\ pc' = [pc EXCEPT ![p] = "validating"]
    /\ loc' = [loc EXCEPT ![p].seen_torn =
                              @ \/ dirty \/ holder.by_jwks # holder.by_ts]
    /\ UNCHANGED <<svc_vars, auth_vars, error_vars, jwt_vars, refresher, constructed, holder, dirty,
                   writer, now, upstream>>

\* jwt_validate: the token is checked against jwks_guard.jwks(); the guard is
\* dropped on return
Validate(p) ==
    /\ pc[p] = "validating"
    /\ readers' = readers \ {p}
    /\ pc' = [pc EXCEPT ![p] = "done"]
    /\ loc' = [loc EXCEPT ![p].result =
                              jwt_validate(loc[p].token, TRUE, JwkSetOf(holder.jwks))]
    /\ UNCHANGED <<svc_vars, auth_vars, error_vars, jwt_vars, refresher, constructed, holder, dirty,
                   writer, now, upstream>>

\* the response has been sent
Finish(p) ==
    /\ pc[p] = "done"
    /\ pc' = [pc EXCEPT ![p] = "idle"]
    /\ loc' = [loc EXCEPT ![p] = NewLoc(loc[p].swapped)]
    /\ UNCHANGED <<svc_vars, auth_vars, error_vars, jwt_vars, refresher, constructed, holder, dirty, readers, writer,
                   now, upstream>>

\* the suspension points of a request: the .await of get, obtain_jwks,
\* refresh_jwks and jwt_validate
AwaitPoints == {"get_read", "sending", "parsing", "wait_write", "got"}

\* the request future is dropped at an .await (client gone, timeout);
\* no guard is held at any of them
Cancel(p) ==
    /\ pc[p] \in AwaitPoints
    /\ pc' = [pc EXCEPT ![p] = "idle"]
    /\ loc' = [loc EXCEPT ![p] = NewLoc(loc[p].swapped)]
    /\ readers' = readers \ {p}
    /\ UNCHANGED <<svc_vars, auth_vars, error_vars, jwt_vars, refresher, constructed, holder, dirty,
                   writer, now, upstream>>

NextCache ==
    \/ New
    \/ Tick
    \/ Rotate
    \/ \E m \in UpstreamModes : SetMode(m)
    \/ \E p \in Procs : \E token \in CacheTokens : Start(p, token)
    \/ \E p \in Procs : GetRead(p)
    \/ \E p \in Procs : Send(p)
    \/ \E p \in Procs : Parse(p)
    \/ \E p \in Procs : WriteJwks(p)
    \/ \E p \in Procs : WriteLastUpdated(p)
    \/ \E p \in Procs : ReadGuard(p)
    \/ \E p \in Procs : Validate(p)
    \/ \E p \in Procs : Finish(p)
    \/ \E p \in Procs : Cancel(p)

SpecCache == InitCache /\ [][NextCache]_vars

TypeOKCache ==
    /\ refresher \in Refreshers
    /\ now \in 0..MaxTime
    /\ pc \in [Procs -> {"idle", "get_read", "sending", "parsing", "wait_write",
                         "write_ts", "got", "validating", "done"}]

(***************************************************************************)
(*                      PROPERTIES OF THE KEY-SET CACHE                    *)
(***************************************************************************)

\* positions at which the read of get has taken place
AfterRead == {"sending", "parsing", "wait_write", "write_ts", "got",
              "validating", "done"}

\* no task is inside refresh_jwks
Quiescent == \A p \in Procs : pc[p] \notin Refreshing

\* C4: when the read of get finds the snapshot stale and the refresh fails,
\* the request goes on to validate against the stale snapshot and the failure
\* is only logged.
C4_StaleSnapshotServedOnFetchFailure ==
    \A p \in Procs :
        (pc[p] = "done" /\ loc[p].fetch_err # None)
            => (loc[p].result.value # "Jwks" /\ loc[p].logged)

\* C5: every read made under a read guard, with refreshes racing and requests
\* cancelled at their suspension points, sees both fields of the holder as
\* written by one refresh (or by the constructor); whenever a read guard can
\* be granted the holder is not between its two assignments.
C5_NoTornRead ==
    /\ \A p \in Procs : ~loc[p].seen_torn
    /\ ReadLockFree => (~dirty /\ holder.by_jwks = holder.by_ts)

\* a reader holds the snapshot installed by a refresh while another refresh
\* is waiting for the write lock
C5_Witness ==
    \E p, q \in Procs :
        /\ p # q
        /\ pc[p] = "validating"
        /\ pc[q] = "wait_write"
        /\ holder.by_jwks # NoProc

\* C6 as stated: a read starts a fetch if and only if the age of the snapshot
\* exceeds the TTL.
C6_FetchIffAgeOverTtl ==
    \A p \in Procs :
        pc[p] \in AfterRead => (loc[p].attempts = 1 <=> loc[p].over_ttl)

\* C6 amended: a read starts a fetch if and only if the age of the snapshot in
\* whole seconds exceeds the TTL, that is the age is at least TTL + 1 seconds;
\* it starts at most one, and the holder is written only by a task that holds
\* the write lock, alone, after its fetch succeeded.
C6_FetchIffWholeSecondsOverTtl ==
    /\ \A p \in Procs :
          /\ loc[p].attempts <= 1
          /\ pc[p] \in AfterRead =>
                (loc[p].attempts = 1 <=> loc[p].over_ttl_by_sec)
          /\ pc[p] = "write_ts" =>
                /\ writer = p
                /\ readers = {}
                /\ loc[p].attempts = 1
                /\ loc[p].fetch_err = None
    /\ dirty => writer # NoProc

\* a stale read has fetched once and replaced the snapshot
C6_Witness ==
    \E p \in Procs :
        /\ pc[p] = "got"
        /\ loc[p].attempts = 1
        /\ loc[p].fetch_err = None
        /\ holder.by_ts = p
        /\ holder.last_updated = now

\* C7: a task whose fetch is in flight holds neither a read nor the write
\* guard, and the lock is only ever held by tasks inside the swap or the
\* validation, so a reader is never made to wait for network I/O.
C7_NoLockWhileFetching ==
    /\ \A p \in Procs :
          pc[p] \in {"sending", "parsing"} => (p \notin readers /\ writer # p)
    /\ readers \subseteq {p \in Procs : pc[p] = "validating"}
    /\ writer # NoProc => pc[writer] = "write_ts"

\* a reader holds its read guard while the fetch of another request is pending
C7_Witness ==
    \E p, q \in Procs :
        /\ pc[p] = "sending"
        /\ pc[q] = "validating"
        /\ q \in readers

\* C8: once no refresh is in progress, the holder is exactly what the last
\* refresh to swap has produced: its key set, whole, and its timestamp.
C8_RacingRefreshesIdempotent ==
    (Quiescent /\ holder.by_jwks # NoProc) =>
        /\ ~dirty
        /\ writer = NoProc
        /\ holder.by_ts = holder.by_jwks
        /\ holder.jwks = loc[holder.by_jwks].swapped
        /\ holder.jwks \in 1..MaxVersion

\* two requests found the same snapshot stale, both fetched and both swapped
C8_Witness ==
    /\ Quiescent
    /\ \E p, q \in Procs :
          /\ p # q
          /\ loc[q].raced
          /\ \A r \in {p, q} : /\ pc[r] \in {"got", "validating", "done"}
                               /\ loc[r].attempts = 1
                               /\ loc[r].fetch_err = None
                               /\ loc[r].swapped # NoJwks
          /\ holder.by_jwks = q

\* C9: a refresher exists only if its first fetch succeeded, and then it
\* holds a complete snapshot in every state; without it no request is served.
C9_ConstructedHoldsSnapshot ==
    /\ constructed = "ok" =>
          /\ holder.jwks \in 1..MaxVersion
          /\ holder.last_updated \in 0..MaxTime
    /\ constructed # "ok" =>
          /\ holder = NoHolder
          /\ \A p \in Procs : pc[p] = "idle"
    /\ constructed = "Err(Fetch)" => upstream.mode = "down"
    /\ constructed = "Err(Parse)" => upstream.mode = "malformed"

\* the constructed cache has gone through a refresh and is being read
C9_Witness ==
    /\ constructed = "ok"
    /\ holder.by_ts # NoProc
    /\ \E p \in Procs : pc[p] = "validating"

(***************************************************************************)
(*                 THE ERROR MODEL AS A STATE MACHINE                      *)
(***************************************************************************)

InitError ==
    /\ error_verbosity \in ErrorVerbosity
    /\ failure = NoFailure
    /\ api_error = NoError
    /\ response = NoResponse
    /\ CacheIdle /\ JwtIdle /\ AuthIdle /\ SvcIdle

\* a constructor of error.rs is called with the configured verbosity
Fail(f) ==
    /\ api_error = NoError
    /\ failure' = f
    /\ api_error' = Construct(error_verbosity, f)
    /\ logs' = Logged(Construct(error_verbosity, f))
    /\ UNCHANGED <<validate_nbf, service, auth_vars, error_verbosity, response, cache_vars,
                   jwt_vars>>

\* the query string of a request is rejected by ApiQuery
RejectQuery(query_rejection, schema) ==
    /\ api_error = NoError
    /\ LET rejection == ApiQuery_from_request_parts(error_verbosity, query_rejection,
                                                    schema) IN
          /\ failure' = SchemaFailure("ApiQuery::from_request_parts", query_rejection,
                                      schema)
          /\ api_error' = rejection.err
          /\ logs' = rejection.logs
    /\ UNCHANGED <<validate_nbf, service, auth_vars, error_verbosity, response, cache_vars,
                   jwt_vars>>

\* the body of a request is rejected by ApiJson
RejectJson(json_rejection, schema) ==
    /\ api_error = NoError
    /\ LET rejection == ApiJson_from_request(error_verbosity, json_rejection, schema) IN
          /\ failure' = SchemaFailure("ApiJson::from_request", json_rejection, schema)
          /\ api_error' = rejection.err
          /\ logs' = rejection.logs
    /\ UNCHANGED <<validate_nbf, service, auth_vars, error_verbosity, response, cache_vars,
                   jwt_vars>>

\* the path of a request is rejected by ApiPath
RejectPath(path_rejection) ==
    /\ api_error = NoError
    /\ LET rejection == ApiPath_from_request_parts(error_verbosity, path_rejection) IN
          /\ failure' = Failure("PathError::from_path_rejection", path_rejection)
          /\ api_error' = rejection.err
          /\ logs' = rejection.logs
    /\ UNCHANGED <<validate_nbf, service, auth_vars, error_verbosity, response, cache_vars,
                   jwt_vars>>

\* the extracted data of a request does not validate
RejectValidated(errors) ==
    /\ api_error = NoError
    /\ LET rejection == Validated_from_request(error_verbosity, errors) IN
          /\ failure' = Failure("ValidationError::from_validation_errors", errors)
          /\ api_error' = rejection.err
          /\ logs' = rejection.logs
    /\ UNCHANGED <<validate_nbf, service, auth_vars, error_verbosity, response, cache_vars,
                   jwt_vars>>

\* axum turns the rejection into the response
Render ==
    /\ api_error # NoError
    /\ response = NoResponse
    /\ response' = into_response(api_error)
    /\ UNCHANGED <<svc_vars, auth_vars, error_verbosity, failure, api_error, cache_vars, jwt_vars>>

\* the response is sent
Reply ==
    /\ response # NoResponse
    /\ failure' = NoFailure
    /\ api_error' = NoError
    /\ response' = NoResponse
    /\ logs' = <<>>
    /\ UNCHANGED <<validate_nbf, service, auth_vars, error_verbosity, cache_vars, jwt_vars>>

NextError ==
    \/ \E f \in Failures : Fail(f)
    \/ \E query_rejection \in QueryRejections : \E schema \in SchemaResults :
          RejectQuery(query_rejection, schema)
    \/ \E json_rejection \in JsonRejections : \E schema \in SchemaResults :
          RejectJson(json_rejection, schema)
    \/ \E path_rejection \in PathRejections : RejectPath(path_rejection)
    \/ \E errors \in {"ValidationErrors"} : RejectValidated(errors)
    \/ Render
    \/ Reply

SpecError == InitError /\ [][NextError]_vars

\* the fixed summary message of the kind of an error
Summary(e) ==
    IF e.kind = "Resource" THEN GetBookErrorType_message(e.type)
                           ELSE ApiError_message(e)

\* C1: whatever the verbosity level, a failure has the same error kind and
\* is rendered with the same status code. The answer of level None, 204 for
\* every error, is documented (error.rs:27) and left aside here: what
\* violates this formula is a difference between two levels that the
\* documentation does not cover.
C1_StatusAndKindSameAtAllLevels ==
    response # NoResponse =>
        \A v \in ErrorVerbosity :
            LET other == Construct(v, failure) IN
              /\ other.kind = api_error.kind
              /\ (other.verbosity # "None" /\ api_error.verbosity # "None") =>
                    into_response(other).status = response.status

\* C2: an error whose verbosity is None, of whatever kind, is rendered as
\* 204 No Content with an empty body.
C2_NoneIsNoContent ==
    (response # NoResponse /\ api_error.verbosity = "None") =>
        /\ response.status = NO_CONTENT
        /\ response.body = EmptyBody

\* a Basic-auth failure (401 with a challenge header otherwise) rendered at None
C2_Witness ==
    /\ response # NoResponse
    /\ api_error.verbosity = "None"
    /\ api_error.kind = "BasicAuth"
    /\ api_error.type = "Invalid"

\* C3: every detail field of a constructed error is populated exactly when
\* its verbosity is Full; the body is empty at StatusCode, only the summary
\* message at Message, kind and summary with null detail at Type, and carries
\* the detail at Full.
C3_DetailOnlyAtFull ==
    /\ api_error # NoError =>
          \A fld \in DetailOf(api_error) :
              api_error[fld] # None <=> api_error.verbosity = "Full"
    /\ response # NoResponse =>
          LET v == api_error.verbosity
              b == response.body
          IN /\ v \in {"None", "StatusCode"} => b = EmptyBody
             /\ v = "Message" =>
                   b = [shape |-> "message", message |-> Summary(api_error),
                        error_type |-> Absent, error |-> NoDetail]
             /\ v \in {"Type", "Full"} =>
                   /\ b.shape = "full"
                   /\ b.message = Summary(api_error)
                   /\ b.error_type = IF api_error.kind = "Resource"
                                     THEN api_error.type ELSE api_error.kind
                   /\ \A fld \in DetailFields : b.error[fld] = api_error[fld]
             /\ v = "Type" =>
                   \A fld \in DetailFields : b.error[fld] \in {Absent, None}
             /\ v = "Full" =>
                   \A fld \in DetailOf(api_error) : b.error[fld] \notin {Absent, None}

(***************************************************************************)
(*                 JWT VALIDATION AS A STATE MACHINE                       *)
(***************************************************************************)

InitJwt ==
    /\ jwks \in JwkSets
    /\ jwt = NoToken
    /\ jwt_result = NoResult
    /\ validate_nbf \in BOOLEAN
    /\ logs = <<>>
    /\ service = NoService
    /\ ErrorIdle /\ CacheIdle /\ AuthIdle

\* a request presents a bearer token
Present(token) ==
    /\ jwt = NoToken
    /\ jwt' = token
    /\ UNCHANGED <<svc_vars, auth_vars, jwks, jwt_result, error_vars, cache_vars>>

\* the ApiJwt extractor validates the token against the snapshot
ExtractorValidate ==
    /\ jwt # NoToken
    /\ jwt_result = NoResult
    /\ jwt_result' = validate(jwt, jwks, validate_nbf)
    /\ UNCHANGED <<svc_vars, auth_vars, jwt, jwks, error_vars, cache_vars>>

\* the request ends
Answer ==
    /\ jwt_result # NoResult
    /\ jwt' = NoToken
    /\ jwt_result' = NoResult
    /\ UNCHANGED <<svc_vars, auth_vars, jwks, error_vars, cache_vars>>

NextJwt ==
    \/ \E token \in Tokens : Present(token)
    \/ ExtractorValidate
    \/ Answer

SpecJwt == InitJwt /\ [][NextJwt]_vars

\* the steps of validation in the order of the specification, named by the
\* error each reports
StepOrder ==
    <<"DecodeHeader", "NoKid", "NoMatchingJWK", "UnsupportedAlgorithm",
      "DecodingKey", "KeyAlgorithmNotFound", "ValidationAlgorithm", "TokenInvalid">>

\* whether step i, taken alone, fails for the token and the snapshot
StepFails(i) ==
    LET matching == {n \in DOMAIN jwks : jwks[n].kid = jwt.kid}
        key      == jwks[CHOOSE n \in matching : \A m \in matching : n <= m]
    IN CASE i = 1 -> ~jwt.header_ok
         [] i = 2 -> jwt.kid = NoKid
         [] i = 3 -> matching = {}
         [] i = 4 -> matching # {} /\ key.family # "RSA"
         [] i = 5 -> matching # {} /\ ~key.components_ok
         [] i = 6 -> matching # {} /\ key.key_algorithm = None
         [] i = 7 -> matching # {} /\ key.key_algorithm \notin Algorithms
         \* a not-before time in the future fails the step where the check
         \* is in force: always in jwt_validate, by the flag in the extractor
         [] i = 8 -> /\ jwt.verify # "Ok"
                     /\ (jwt.verify = "ImmatureSignature" /\ ~validate_nbf)
                            => ~jwt_result.ok

\* C10: with the snapshot in hand, validation reports the error of the first
\* step, in the fixed order, that fails, and returns the claims only when no
\* step fails.
C10_FirstFailingStepReported ==
    jwt_result # NoResult =>
        LET failing == {i \in DOMAIN StepOrder : StepFails(i)} IN
          /\ jwt_result.ok <=> failing = {}
          /\ ~jwt_result.ok =>
                \E i \in failing :
                    /\ \A j \in failing : i <= j
                    /\ jwt_result.value = StepOrder[i]

\* a token whose key is found, is undecodable and declares no algorithm:
\* steps 5 and 6 both fail, the error is that of step 5
C10_Witness ==
    /\ jwt_result # NoResult
    /\ jwt_result.value = "DecodingKey"
    /\ StepFails(5) /\ StepFails(6)
    /\ jwt.verify = "ExpiredSignature"

(***************************************************************************)
(*        CREDENTIAL EXTRACTORS (extractor/*.rs, state.rs)                 *)
(* Header values and credentials are sequences of bytes.                   *)
(***************************************************************************)

MaxCredLen == 3             \* bytes of a decoded user:pass value

SP    == 32                 \* ' '
COLON == 58                 \* ':'
PAD   == 61                 \* '='

Basic  == <<66, 97, 115, 105, 99>>          \* "Basic"
Bearer == <<66, 101, 97, 114, 101, 114>>    \* "Bearer"

\* Option<T>: <<>> is None, <<x>> is Some(x)
Some(x) == <<x>>

\* a Result, with the warn and error records logged on the way to it
Ok(value)     == [ok |-> TRUE, value |-> Some(value), err |-> NoError, logs |-> <<>>]
Rejected(err) == [ok |-> FALSE, value |-> <<>>, err |-> err, logs |-> <<>>]

\* tracing::warn! and tracing::error! on the way to a result
Warn(result)  == [result EXCEPT !.logs = <<"warn">> \o @]
Error(result) == [result EXCEPT !.logs = @ \o <<"error">>]

\* HeaderValue::to_str: every byte is visible ASCII or a tab
to_str_ok(value) == \A i \in DOMAIN value : value[i] = 9 \/ (value[i] >= 32 /\ value[i] < 127)

\* str::split_once: split at the first occurrence of the delimiter
split_once(s, delimiter) ==
    IF \E i \in DOMAIN s : s[i] = delimiter
    THEN LET i == CHOOSE i \in DOMAIN s :
                      s[i] = delimiter /\ \A j \in 1 .. i - 1 : s[j] # delimiter
         IN Some(<<SubSeq(s, 1, i - 1), SubSeq(s, i + 1, Len(s))>>)
    ELSE <<>>

\* the value of a symbol of the standard base64 alphabet, -1 for any other byte
b64_value(c) ==
    CASE c >= 65 /\ c <= 90  -> c - 65
      [] c >= 97 /\ c <= 122 -> c - 71
      [] c >= 48 /\ c <= 57  -> c + 4
      [] c = 43              -> 62
      [] c = 47              -> 63
      [] OTHER               -> -1

\* the symbol of a 6-bit value
b64_symbol(v) ==
    CASE v <= 25 -> v + 65
      [] v <= 51 -> v + 71
      [] v <= 61 -> v - 4
      [] v = 62  -> 43
      [] v = 63  -> 47

\* base64::engine::general_purpose::STANDARD.encode
RECURSIVE b64_encode(_)
b64_encode(bytes) ==
    CASE Len(bytes) = 0 -> <<>>
      [] Len(bytes) = 1 ->
            <<b64_symbol(bytes[1] \div 4), b64_symbol((bytes[1] % 4) * 16), PAD, PAD>>
      [] Len(bytes) = 2 ->
            <<b64_symbol(bytes[1] \div 4),
              b64_symbol((bytes[1] % 4) * 16 + bytes[2] \div 16),
              b64_symbol((bytes[2] % 16) * 4), PAD>>
      [] OTHER ->
            <<b64_symbol(bytes[1] \div 4),
              b64_symbol((bytes[1] % 4) * 16 + bytes[2] \div 16),
              b64_symbol((bytes[2] % 16) * 4 + bytes[3] \div 64),
              b64_symbol(bytes[3] % 64)>>
            \o b64_encode(SubSeq(bytes, 4, Len(bytes)))

\* base64::engine::general_purpose::STANDARD.decode: standard alphabet,
\* canonical padding required, trailing bits must be zero.
\* <<>> is Err(DecodeError), <<bytes>> is Ok(bytes)
RECURSIVE b64_decode(_)
b64_decode(symbols) ==
    IF Len(symbols) = 0 THEN Some(<<>>)
    ELSE IF Len(symbols) < 4 THEN <<>>
    ELSE LET v == [i \in 1 .. 4 |-> b64_value(symbols[i])]
             last == Len(symbols) = 4
         IN IF v[1] < 0 \/ v[2] < 0 THEN <<>>
            ELSE IF last /\ symbols[3] = PAD /\ symbols[4] = PAD
                 THEN IF v[2] % 16 = 0 THEN Some(<<v[1] * 4 + v[2] \div 16>>) ELSE <<>>
            ELSE IF v[3] < 0 THEN <<>>
            ELSE IF last /\ symbols[4] = PAD
                 THEN IF v[3] % 4 = 0
                      THEN Some(<<v[1] * 4 + v[2] \div 16, (v[2] % 16) * 16 + v[3] \div 4>>)
                      ELSE <<>>
            ELSE IF v[4] < 0 THEN <<>>
            ELSE LET rest == b64_decode(SubSeq(symbols, 5, Len(symbols))) IN
                 IF rest = <<>> THEN <<>>
                 ELSE Some(<<v[1] * 4 + v[2] \div 16, (v[2] % 16) * 16 + v[3] \div 4,
                             (v[3] % 4) * 64 + v[4]>> \o rest[1])

\* a continuation byte of a UTF-8 encoding within [lo, hi]
continuation(bytes, i, lo, hi) == Len(bytes) >= i /\ bytes[i] >= lo /\ bytes[i] <= hi

\* String::from_utf8 succeeds: encodings of one to four bytes; overlong
\* encodings (lead bytes C0, C1; E0 below A0; F0 below 90), surrogates (ED
\* above 9F) and code points over U+10FFFF (F4 above 8F, lead bytes over F4)
\* are errors
RECURSIVE from_utf8_ok(_)
from_utf8_ok(bytes) ==
    IF Len(bytes) = 0 THEN TRUE
    ELSE LET b == bytes[1] IN
         IF b < 128 THEN from_utf8_ok(Tail(bytes))
         ELSE IF b >= 194 /\ b <= 223
              THEN /\ continuation(bytes, 2, 128, 191)
                   /\ from_utf8_ok(SubSeq(bytes, 3, Len(bytes)))
         ELSE IF b >= 224 /\ b <= 239
              THEN /\ continuation(bytes, 2, IF b = 224 THEN 160 ELSE 128,
                                              IF b = 237 THEN 159 ELSE 191)
                   /\ continuation(bytes, 3, 128, 191)
                   /\ from_utf8_ok(SubSeq(bytes, 4, Len(bytes)))
         ELSE IF b >= 240 /\ b <= 244
              THEN /\ continuation(bytes, 2, IF b = 240 THEN 144 ELSE 128,
                                              IF b = 244 THEN 143 ELSE 191)
                   /\ continuation(bytes, 3, 128, 191)
                   /\ continuation(bytes, 4, 128, 191)
                   /\ from_utf8_ok(SubSeq(bytes, 5, Len(bytes)))
         ELSE FALSE

\* ---- configuration of ApiState ------------------------------------------

\* ApiStateInner.api_keys: "k1", "k2"
ApiKeys == {<<107, 49>>, <<107, 50>>}

\* ApiStateInner.basic_auth_users: a with password b, b without password,
\* ab with the empty password
UsedBasicAuth(username, password) == [username |-> username, password |-> password]

BasicAuthUsers ==
    {UsedBasicAuth(<<97>>, Some(<<98>>)), UsedBasicAuth(<<98>>, <<>>),
     UsedBasicAuth(<<97, 98>>, Some(<<>>))}

\* ApiState::api_key_validate
api_key_validate(key) == \E valid_key \in ApiKeys : valid_key = key

\* ApiState::basic_auth_authenticate
basic_auth_authenticate(username, password) ==
    \E valid_user \in BasicAuthUsers :
        valid_user.username = username /\ valid_user.password = password

\* ---- API key -------------------------------------------------------------

\* ApiKeyError { verbosity, api_key_error_reason }: the error as
\* extractor/api_key.rs builds it, a struct without type whose reason is
\* set at every verbosity
ApiKeyError_struct(verbosity, api_key_error_reason) ==
    Err("ApiKey", Absent, verbosity, api_key_error_reason, Absent, Absent, Absent)

\* ApiKey::from_request_parts of extractor/api_key.rs, the extractor that
\* validates the key itself: headers.get(header_name), to_str, then
\* state.validate(used_api_key); the result and the provider calls made
ApiKey_from_request_parts(verbosity, req) ==
    IF req.api_key = <<>>
    THEN [result |-> Warn(Rejected(ApiKeyError_struct(verbosity, "API key not found"))),
          calls |-> <<>>]
    ELSE IF ~to_str_ok(req.api_key[1])
    THEN [result |-> Warn(Rejected(ApiKeyError_struct(verbosity,
                         "API key header value is not a valid string"))),
          calls |-> <<>>]
    ELSE IF ~api_key_validate(req.api_key[1])
    THEN [result |-> Warn(Rejected(ApiKeyError_struct(verbosity, "Invalid API key"))),
          calls |-> <<"validate">>]
    ELSE [result |-> Ok(req.api_key[1]), calls |-> <<"validate">>]

\* the ApiKey extractor that ValidApiKey and the routes use, which yields
\* ApiKey(UsedApiKey { value }) without validating it: the header is looked
\* up and turned into text, and a failure is the ApiKeyError of error.rs of
\* type Missing or InvalidChars
UsedApiKey_from_request_parts(verbosity, req) ==
    IF req.api_key = <<>>
    THEN Warn(Rejected(ApiKeyError_new(verbosity, "Missing")))
    ELSE IF ~to_str_ok(req.api_key[1])
    THEN Warn(Rejected(ApiKeyError_new(verbosity, "InvalidChars")))
    ELSE Ok(req.api_key[1])

\* ApiKeyProvider::validate as ApiState provides it
ApiKeyProvider_validate(key) == IF api_key_validate(key) THEN "Ok" ELSE "Invalid"

\* mutant: the key is validated although it could not be extracted
ValidApiKey_from_request_parts_ValidateFirst(verbosity, req) ==
    LET api_key == UsedApiKey_from_request_parts(verbosity, req)
        key     == IF req.api_key = <<>> THEN <<>> ELSE req.api_key[1]
        valid   == ApiKeyProvider_validate(key)
    IN IF valid = "Invalid"
       THEN [result |-> Warn(Rejected(ApiKeyError_new(verbosity, "Invalid"))),
             calls |-> <<"validate">>]
       ELSE [result |-> api_key, calls |-> <<"validate">>]

\* ValidApiKey::from_request_parts: the result and the provider calls made
ValidApiKey_from_request_parts(verbosity, req) ==
    LET api_key == UsedApiKey_from_request_parts(verbosity, req) IN
    IF ~api_key.ok THEN [result |-> api_key, calls |-> <<>>]
    ELSE LET valid == ApiKeyProvider_validate(api_key.value[1]) IN
         [result |->
             CASE valid = "Ok"      -> api_key
               [] valid = "Invalid" -> Warn(Rejected(ApiKeyError_new(verbosity, "Invalid")))
               [] OTHER ->
                  Warn(Error(Rejected(
                      InternalServerError_from_generic_error(verbosity, valid)))),
          calls |-> <<"validate">>]

\* ---- Basic auth ----------------------------------------------------------

\* ApiBasicAuth::extract_authorization
ApiBasicAuth_extract_authorization(verbosity, req) ==
    IF req.authorization = <<>>
    THEN Warn(Rejected(BasicAuthError_new(verbosity, "AuthMissing")))
    ELSE IF ~to_str_ok(req.authorization[1])
    THEN Warn(Rejected(BasicAuthError_new(verbosity, "AuthInvalidChars")))
    ELSE Ok(req.authorization[1])

\* ApiBasicAuth::extract_encoded_basic
ApiBasicAuth_extract_encoded_basic(verbosity, authorization) ==
    LET split == split_once(authorization, SP) IN
    IF split # <<>> /\ split[1][1] = Basic
    THEN Ok(split[1][2])
    ELSE Warn(Rejected(BasicAuthError_new(verbosity, "InvalidBasic")))

\* mutant: a value that cannot be decoded is rejected without a log record
ApiBasicAuth_decode_Silent(verbosity, encoded_basic) ==
    LET decoded == b64_decode(encoded_basic) IN
    IF decoded = <<>>
    THEN Rejected(BasicAuthError_new(verbosity, "Decode"))
    ELSE IF ~from_utf8_ok(decoded[1])
    THEN Warn(Rejected(BasicAuthError_new(verbosity, "AuthInvalidUTF8")))
    ELSE Ok(decoded[1])

\* ApiBasicAuth::decode
ApiBasicAuth_decode(verbosity, encoded_basic) ==
    LET decoded == b64_decode(encoded_basic) IN
    IF decoded = <<>>
    THEN Warn(Rejected(BasicAuthError_new(verbosity, "Decode")))
    ELSE IF ~from_utf8_ok(decoded[1])
    THEN Warn(Rejected(BasicAuthError_new(verbosity, "AuthInvalidUTF8")))
    ELSE Ok(decoded[1])

\* mutant: the value is split at its last colon
ApiBasicAuth_split_LastColon(basic_auth) ==
    IF \E i \in DOMAIN basic_auth : basic_auth[i] = COLON
    THEN LET i == CHOOSE i \in DOMAIN basic_auth :
                      /\ basic_auth[i] = COLON
                      /\ \A j \in i + 1 .. Len(basic_auth) : basic_auth[j] # COLON
         IN UsedBasicAuth(SubSeq(basic_auth, 1, i - 1),
                          Some(SubSeq(basic_auth, i + 1, Len(basic_auth))))
    ELSE UsedBasicAuth(basic_auth, <<>>)

\* ApiBasicAuth::split
ApiBasicAuth_split(basic_auth) ==
    LET split == split_once(basic_auth, COLON) IN
    IF split # <<>>
    THEN UsedBasicAuth(split[1][1], Some(split[1][2]))
    ELSE UsedBasicAuth(basic_auth, <<>>)

\* mutant: the value is decoded before the scheme is looked at
ApiBasicAuth_from_req_parts_DecodeFirst(verbosity, req) ==
    LET authorization == ApiBasicAuth_extract_authorization(verbosity, req) IN
    IF ~authorization.ok THEN authorization
    ELSE LET split   == split_once(authorization.value[1], SP)
             decoded == ApiBasicAuth_decode(verbosity,
                            IF split = <<>> THEN <<>> ELSE split[1][2])
         IN IF ~decoded.ok THEN decoded
            ELSE LET encoded_basic ==
                        ApiBasicAuth_extract_encoded_basic(verbosity, authorization.value[1])
                 IN IF ~encoded_basic.ok THEN encoded_basic
                    ELSE Ok(ApiBasicAuth_split(decoded.value[1]))

\* ApiBasicAuth::from_req_parts
ApiBasicAuth_from_req_parts(verbosity, req) ==
    LET authorization == ApiBasicAuth_extract_authorization(verbosity, req) IN
    IF ~authorization.ok THEN authorization
    ELSE LET encoded_basic ==
                 ApiBasicAuth_extract_encoded_basic(verbosity, authorization.value[1])
         IN IF ~encoded_basic.ok THEN encoded_basic
            ELSE LET decoded == ApiBasicAuth_decode(verbosity, encoded_basic.value[1]) IN
                 IF ~decoded.ok THEN decoded
                 ELSE Ok(ApiBasicAuth_split(decoded.value[1]))

\* BasicAuthProvider::authenticate as ApiState provides it
BasicAuthProvider_authenticate(username, password) ==
    IF basic_auth_authenticate(username, password) THEN "Ok" ELSE "Unauthenticated"

\* mutant: the provider is asked even when no credential was extracted
ApiAuthenticatedBasicAuth_from_request_parts_AuthenticateAnyway(verbosity, req) ==
    LET basic_auth == ApiBasicAuth_from_req_parts(verbosity, req)
        used       == IF basic_auth.ok THEN basic_auth.value[1]
                      ELSE UsedBasicAuth(<<>>, <<>>)
        auth       == BasicAuthProvider_authenticate(used.username, used.password)
    IN [result |->
           CASE auth = "Ok" -> basic_auth
             [] auth = "Unauthenticated" ->
                   Warn(Rejected(BasicAuthError_new(verbosity, "Invalid")))
             [] OTHER ->
                  Warn(Error(Rejected(
                      InternalServerError_from_generic_error(verbosity, auth)))),
        calls |-> <<"authenticate">>]

\* ApiAuthenticatedBasicAuth::from_request_parts
ApiAuthenticatedBasicAuth_from_request_parts(verbosity, req) ==
    LET basic_auth == ApiBasicAuth_from_req_parts(verbosity, req) IN
    IF ~basic_auth.ok THEN [result |-> basic_auth, calls |-> <<>>]
    ELSE LET used == basic_auth.value[1]
             auth == BasicAuthProvider_authenticate(used.username, used.password)
         IN [result |->
                CASE auth = "Ok" -> basic_auth
                  [] auth = "Unauthenticated" ->
                        Warn(Rejected(BasicAuthError_new(verbosity, "Invalid")))
                  [] OTHER ->
                  Warn(Error(Rejected(
                      InternalServerError_from_generic_error(verbosity, auth)))),
             calls |-> <<"authenticate">>]

\* ---- Bearer token --------------------------------------------------------

\* ApiBearerToken::extract_authorization
ApiBearerToken_extract_authorization(verbosity, req) ==
    IF req.authorization = <<>>
    THEN Warn(Rejected(BearerError_new(verbosity, "AuthMissing")))
    ELSE IF ~to_str_ok(req.authorization[1])
    THEN Warn(Rejected(BearerError_new(verbosity, "AuthInvalidChars")))
    ELSE Ok(req.authorization[1])

\* ApiBearerToken::extract_bearer_token
ApiBearerToken_extract_bearer_token(verbosity, authorization) ==
    LET split == split_once(authorization, SP) IN
    IF split # <<>> /\ split[1][1] = Bearer
    THEN Ok(split[1][2])
    ELSE Warn(Rejected(BearerError_new(verbosity, "InvalidBearer")))

\* ApiBearerToken::from_request_parts
ApiBearerToken_from_request_parts(verbosity, req) ==
    LET authorization == ApiBearerToken_extract_authorization(verbosity, req) IN
    IF ~authorization.ok THEN authorization
    ELSE ApiBearerToken_extract_bearer_token(verbosity, authorization.value[1])

\* ---- JWT ------------------------------------------------------------------

\* The compact form of a token stands for what decode_header and decode find
\* in it: three bytes, 'h' for a decodable header, the digit of the kid ('0'
\* for none), and a letter for the outcome of its verification.
Jwt_parse(value) ==
    IF Len(value) # 3
    THEN [header_ok |-> FALSE, kid |-> NoKid, verify |-> "InvalidSignature"]
    ELSE [header_ok |-> value[1] = 104,
          kid |-> IF value[2] >= 49 /\ value[2] <= 57 THEN value[2] - 48 ELSE NoKid,
          verify |-> CASE value[3] = 111 -> "Ok"
                       [] value[3] = 101 -> "ExpiredSignature"
                       [] value[3] = 97  -> "InvalidAudience"
                       [] value[3] = 106 -> "Json"
                       [] value[3] = 110 -> "ImmatureSignature"
                       [] OTHER          -> "InvalidSignature"]

\* JwtValidationError::is_expired
is_expired(err) == err.value = "TokenInvalid" /\ err.source = "ExpiredSignature"

\* JwtValidationError::into_jwt_error_type (state.rs): every variant, Jwks
\* included, becomes JwtErrorType::Invalid { err }
into_jwt_error_type(err) == [type |-> "Invalid", err |-> err]

\* JwtError::reason of JwtErrorType::Invalid { err }:
\* format!("JWT is invalid: {err}") with the Display of the validation error
JwtError_reason_Invalid(err) ==
    CASE err.value = "Jwks"          -> "JWT is invalid: Error getting jwks: {0}"
      [] err.value = "DecodeHeader"  -> "JWT is invalid: Error decoding header: InvalidToken"
      [] err.value = "NoKid"         -> "JWT is invalid: Token doesn't have a kid header field"
      [] err.value = "NoMatchingJWK" ->
            "JWT is invalid: No matching JWK found for the given kid: {kid}"
      [] err.value = "UnsupportedAlgorithm" ->
            "JWT is invalid: JWK algorithm is not supported"
      [] err.value = "DecodingKey"   -> "JWT is invalid: Error creating decoding key: {0}"
      [] err.value = "KeyAlgorithmNotFound" ->
            "JWT is invalid: No key algorithm found in JWK"
      [] err.value = "ValidationAlgorithm" ->
            "JWT is invalid: Error creating validation algorithm from Key Algorithm: {0}"
      [] err.value = "TokenInvalid" ->
            (CASE err.source = "InvalidSignature" ->
                    "JWT is invalid: Error validating token: InvalidSignature"
               [] err.source = "ExpiredSignature" ->
                    "JWT is invalid: Error validating token: ExpiredSignature"
               [] err.source = "ImmatureSignature" ->
                    "JWT is invalid: Error validating token: ImmatureSignature"
               [] err.source = "InvalidAudience" ->
                    "JWT is invalid: Error validating token: InvalidAudience"
               [] err.source = "Json" ->
                    "JWT is invalid: Error validating token: JSON error: {0}")

\* mutant: the reason of an invalid token does not say what failed
JwtError_new_Invalid_NoDetail(verbosity, err) ==
    [JwtError_new(verbosity, "Invalid") EXCEPT
        !.reason = then_some(should_generate_error_context(verbosity), "JWT is invalid")]

\* JwtError::new(verbosity, JwtErrorType::Invalid { err })
JwtError_new_Invalid(verbosity, err) ==
    [JwtError_new(verbosity, "Invalid") EXCEPT
        !.reason = then_some(should_generate_error_context(verbosity),
                             JwtError_reason_Invalid(err))]

\* mutant: every verification failure of decode is reported as expired
JwtValidationError_into_api_error_AllExpired(verbosity, err) ==
    IF err.value = "TokenInvalid"
    THEN JwtError_new(verbosity, "ExpiredSignature")
    ELSE JwtError_new_Invalid(verbosity, into_jwt_error_type(err).err)

\* the map_err of ApiJwt::from_request_parts
JwtValidationError_into_api_error(verbosity, err) ==
    IF is_expired(err)
    THEN JwtError_new(verbosity, "ExpiredSignature")
    ELSE JwtError_new_Invalid(verbosity, into_jwt_error_type(err).err)

\* the part of a run of the JWT extractors the properties look at
JwtRun(result, made, token, validation) ==
    [result |-> result, calls |-> made, token |-> token, validation |-> validation]

\* mutant: an unknown kid makes the extractor ask for the key set again
ApiJwt_from_request_parts_Retry(verbosity, req, jwks_result, set, nbf) ==
    LET bearer == ApiBearerToken_from_request_parts(verbosity, req) IN
    IF ~bearer.ok THEN JwtRun(bearer, <<>>, NoToken, NoResult)
    ELSE IF jwks_result # "Ok"
    THEN JwtRun(Error(Rejected(
                    InternalServerError_from_generic_error(verbosity, jwks_result))),
                <<"jwks">>, NoToken, NoResult)
    ELSE LET token  == Jwt_parse(bearer.value[1])
             claims == validate(token, set, nbf)
         IN IF claims.ok
            THEN JwtRun(Ok(claims.value), <<"jwks", "validate">>, token, claims)
            ELSE JwtRun(Warn(Rejected(JwtValidationError_into_api_error(verbosity, claims))),
                        IF claims.value = "NoMatchingJWK"
                        THEN <<"jwks", "validate", "jwks", "validate">>
                        ELSE <<"jwks", "validate">>,
                        token, claims)

\* ApiJwt::from_request_parts (extractor/jwt.rs): bearer token, then
\* state.jwks(), then JwtValidator::validate
ApiJwt_from_request_parts(verbosity, req, jwks_result, set, nbf) ==
    LET bearer == ApiBearerToken_from_request_parts(verbosity, req) IN
    IF ~bearer.ok THEN JwtRun(bearer, <<>>, NoToken, NoResult)
    ELSE IF jwks_result # "Ok"
    THEN JwtRun(Error(Rejected(
                    InternalServerError_from_generic_error(verbosity, jwks_result))),
                <<"jwks">>, NoToken, NoResult)
    ELSE LET token  == Jwt_parse(bearer.value[1])
             claims == validate(token, set, nbf)
         IN IF claims.ok
            THEN JwtRun(Ok(claims.value), <<"jwks", "validate">>, token, claims)
            ELSE JwtRun(Warn(Rejected(JwtValidationError_into_api_error(verbosity, claims))),
                        <<"jwks", "validate">>, token, claims)

(***************************************************************************)
(*                  THE EXTRACTORS AS A STATE MACHINE                      *)
(***************************************************************************)

Extractors == {"ValidApiKey", "ApiBasicAuth", "ApiAuthenticatedBasicAuth",
               "ApiBearerToken", "ApiJwt", "ApiKey"}

Request(api_key, authorization) ==
    [api_key |-> api_key, authorization |-> authorization, arrived |-> TRUE]

\* the sequences over S of length at most n
SeqsUpTo(S, n) == UNION {[1 .. k -> S] : k \in 0 .. n}

\* values of the API key header: absent, the configured keys, k3, k, the
\* empty value, "k1 " and a value that is no text
ApiKeyHeaders ==
    {<<>>} \cup {Some(k) : k \in ApiKeys \cup {<<107, 51>>, <<107>>, <<>>,
                                               <<107, 49, SP>>, <<107, 200>>}}

\* decoded user:pass values: texts over a, b and the colon, texts with a
\* character of two, three and four bytes, and byte strings that are no UTF-8
\* (a stray byte, a cut encoding, an overlong encoding)
DecodedValues ==
    SeqsUpTo({97, 98, COLON}, MaxCredLen)
        \cup {<<195, 169, COLON, 97>>, <<255>>, <<97, COLON, 195>>,
              <<226, 130, 172, COLON>>, <<240, 159, 152, 128>>, <<224, 128, 128>>}

\* values of the Authorization header sent to the Basic extractors
BasicAuthorizations ==
    {<<>>}
    \cup {Some(Basic \o <<SP>> \o b64_encode(d)) : d \in DecodedValues}
    \cup {Some(<<66, 200>>),                                 \* no text
          Some(Basic),                                       \* no space
          Some(<<98, 97, 115, 105, 99, SP, 89, 81, PAD, PAD>>),   \* "basic YQ=="
          Some(Bearer \o <<SP, 89, 81, PAD, PAD>>),          \* other scheme
          Some(<<SP>> \o Basic \o <<SP, 89, 81, PAD, PAD>>), \* leading space
          Some(Basic \o <<SP, SP, 89, 81, PAD, PAD>>),       \* two spaces
          Some(Basic \o <<SP, 89, 82, PAD, PAD>>),           \* trailing bits
          Some(Basic \o <<SP, 89, 81, PAD>>),                \* short padding
          Some(Basic \o <<SP, 89, 81>>),                     \* no padding
          Some(Basic \o <<SP, 42, 81, PAD, PAD>>),          \* no base64 symbol
          Some(<<98, 97, 115, 105, 99, SP, 42>>)}            \* "basic *"

\* compact tokens: header, kid and verification outcome, and two odd values
TokenValues ==
    {<<h, k, v>> : h \in {104, 120}, k \in {48, 49, 50, 51},
                   v \in {111, 101, 97, 106, 110, 115}}
        \cup {<<>>, <<104, SP, 111>>}

\* values of the Authorization header sent to the Bearer extractors
BearerAuthorizations ==
    {<<>>}
    \cup {Some(Bearer \o <<SP>> \o t) : t \in TokenValues}
    \cup {Some(<<66, 200>>),
          Some(Bearer),
          Some(<<98, 101, 97, 114, 101, 114, SP, 104, 49, 111>>),  \* "bearer h1o"
          Some(Basic \o <<SP, 104, 49, 111>>),
          Some(Bearer \o <<SP, SP, 104, 49, 111>>)}

Requests(ex) ==
    CASE ex \in {"ValidApiKey", "ApiKey"} -> {Request(k, <<>>) : k \in ApiKeyHeaders}
      [] ex \in {"ApiBasicAuth", "ApiAuthenticatedBasicAuth"} ->
            {Request(<<>>, a) : a \in BasicAuthorizations}
      [] OTHER -> {Request(<<>>, a) : a \in BearerAuthorizations}

\* the snapshots the JWT extractors are run against
AuthJwkSets ==
    {<<>>,
     <<Jwk(1, "RSA", TRUE, "RS256")>>,
     <<Jwk(1, "RSA", TRUE, "RS256"), Jwk(2, "EllipticCurve", TRUE, None)>>}

Extracted(ex, result) == [ok |-> result.ok, kind |-> ex, value |-> result.value]

InitAuth ==
    /\ error_verbosity \in ErrorVerbosity
    /\ failure = NoFailure
    /\ api_error = NoError
    /\ response = NoResponse
    /\ jwks \in AuthJwkSets
    /\ jwt = NoToken
    /\ jwt_result = NoResult
    /\ validate_nbf \in BOOLEAN
    /\ logs = <<>>
    /\ service = NoService
    /\ AuthIdle /\ CacheIdle

\* a request is routed to a handler using the extractor
Receive(ex, req) ==
    /\ extractor = None
    /\ extractor' = ex
    /\ request' = req
    /\ UNCHANGED <<svc_vars, calls, extracted, error_vars, jwt_vars, cache_vars>>

\* an extractor returned: what it extracted or its rejection, the calls made
Returned(ex, result, made) ==
    /\ extractor = ex
    /\ extracted.kind = None
    /\ extracted' = Extracted(ex, result)
    /\ api_error' = result.err
    /\ calls' = made
    /\ logs' = result.logs
    /\ UNCHANGED <<validate_nbf, service, request, extractor, error_verbosity, failure,
                   response, jwks, cache_vars>>

RunValidApiKey ==
    LET run == ValidApiKey_from_request_parts(error_verbosity, request) IN
    /\ Returned("ValidApiKey", run.result, run.calls)
    /\ UNCHANGED <<jwt, jwt_result>>

RunApiBasicAuth ==
    /\ Returned("ApiBasicAuth", ApiBasicAuth_from_req_parts(error_verbosity, request), <<>>)
    /\ UNCHANGED <<jwt, jwt_result>>

RunApiAuthenticatedBasicAuth ==
    LET run == ApiAuthenticatedBasicAuth_from_request_parts(error_verbosity, request) IN
    /\ Returned("ApiAuthenticatedBasicAuth", run.result, run.calls)
    /\ UNCHANGED <<jwt, jwt_result>>

RunApiBearerToken ==
    /\ Returned("ApiBearerToken",
                ApiBearerToken_from_request_parts(error_verbosity, request), <<>>)
    /\ UNCHANGED <<jwt, jwt_result>>

\* state.jwks() hands out the snapshot or fails
RunApiJwt(jwks_result) ==
    LET run == ApiJwt_from_request_parts(error_verbosity, request, jwks_result, jwks,
                                         validate_nbf) IN
    /\ Returned("ApiJwt", run.result, run.calls)
    /\ jwt' = run.token
    /\ jwt_result' = run.validation

\* the ApiKey extractor of extractor/api_key.rs, which validates the key
RunApiKey ==
    LET run == ApiKey_from_request_parts(error_verbosity, request) IN
    /\ Returned("ApiKey", run.result, run.calls)
    /\ UNCHANGED <<jwt, jwt_result>>

\* the responses a rejection can be rendered as. The ApiKeyError that
\* extractor/api_key.rs builds from a reason is rendered like every ApiError;
\* its status_code is not that of error.rs, which goes by a type this error
\* does not have: it is any of the statuses of an API-key error, and its
\* serialized struct has the reason and no type
Rendered(e) ==
    IF e.kind = "ApiKey" /\ e.type = Absent
    THEN {[into_response([e EXCEPT !.type = type]) EXCEPT !.body.error.type = Absent] :
             type \in ApiKeyErrorTypes}
    ELSE {into_response(e)}

\* the rejection is rendered
Reject ==
    /\ extracted.kind # None
    /\ ~extracted.ok
    /\ response = NoResponse
    /\ response' \in Rendered(api_error)
    /\ UNCHANGED <<svc_vars, auth_vars, error_verbosity, failure, api_error, jwt_vars, cache_vars>>

\* the request is over
Complete ==
    /\ extracted.kind # None
    /\ extracted.ok \/ response # NoResponse
    /\ request' = NoRequest
    /\ extractor' = None
    /\ calls' = <<>>
    /\ extracted' = NoExtracted
    /\ api_error' = NoError
    /\ response' = NoResponse
    /\ jwt' = NoToken
    /\ jwt_result' = NoResult
    /\ logs' = <<>>
    /\ UNCHANGED <<validate_nbf, service, error_verbosity, failure, jwks, cache_vars>>

NextAuth ==
    \/ \E ex \in Extractors : \E req \in Requests(ex) : Receive(ex, req)
    \/ RunValidApiKey
    \/ RunApiBasicAuth
    \/ RunApiAuthenticatedBasicAuth
    \/ RunApiBearerToken
    \/ \E jwks_result \in {"Ok", "JwksError"} : RunApiJwt(jwks_result)
    \/ RunApiKey
    \/ Reject
    \/ Complete

SpecAuth == InitAuth /\ [][NextAuth]_vars

(***************************************************************************)
(*                      PROPERTIES OF THE EXTRACTORS                       *)
(***************************************************************************)

\* the JWT extractor ran the validation and it failed
JwtValidationFailed ==
    /\ extractor = "ApiJwt"
    /\ extracted.kind # None
    /\ jwt_result # NoResult
    /\ ~jwt_result.ok

\* the steps of the validation that fail for the presented token
FailingSteps == {i \in DOMAIN StepOrder : StepFails(i)}

\* C11: a failed JWT validation is rejected as JwtErrorType::ExpiredSignature
\* exactly when the only failing step is the verification and its failure is
\* the expiry; every other failure is rejected as JwtErrorType::Invalid.
C11_ExpiredIffExpiryFailure ==
    JwtValidationFailed =>
        /\ api_error.kind = "Jwt"
        /\ api_error.type \in {"ExpiredSignature", "Invalid"}
        /\ api_error.type = "ExpiredSignature" <=>
              /\ FailingSteps = {8}
              /\ jwt.verify = "ExpiredSignature"

\* an expired token with a known key is rejected as expired and rendered
C11_Witness ==
    /\ JwtValidationFailed
    /\ extractor = "ApiJwt"
    /\ jwt.verify = "ExpiredSignature"
    /\ api_error.type = "ExpiredSignature"
    /\ response # NoResponse

\* the positions of the trace of calls at which the key set is asked for,
\* and at which a token is validated
KeySetAccesses == {i \in DOMAIN calls : calls[i] = "jwks"}
Validations    == {i \in DOMAIN calls : calls[i] = "validate"}

\* C12: a token whose kid is not in the snapshot is rejected as
\* JwtErrorType::Invalid, whose status is 401; the request asked for the key
\* set once, before the lookup, and validated once: the failed lookup causes
\* no further key-set access and no second validation.
C12_UnknownKidIsInvalidWithoutRetry ==
    (JwtValidationFailed /\ jwt_result.value = "NoMatchingJWK") =>
        /\ ~extracted.ok
        /\ api_error.kind = "Jwt" /\ api_error.type = "Invalid"
        /\ ApiError_status_code(api_error) = UNAUTHORIZED
        /\ Cardinality(KeySetAccesses) = 1
        /\ Cardinality(Validations) = 1
        /\ \A a \in KeySetAccesses : \A v \in Validations : a <= v
        /\ (response # NoResponse /\ error_verbosity # "None") =>
              response.status = UNAUTHORIZED

\* a token naming kid 3 against a snapshot holding keys 1 and 2, rendered
C12_Witness ==
    /\ JwtValidationFailed
    /\ extractor = "ApiJwt"
    /\ jwt.kid = 3 /\ Len(jwks) = 2
    /\ jwt_result.value = "NoMatchingJWK"
    /\ response # NoResponse /\ response.status = UNAUTHORIZED

\* C13: when every step up to and including signature and claims
\* verification succeeds and only the deserialization of the claims into C
\* fails, the request is rejected as an internal error with status 500.
C13_UndeserializableClaimsAreInternalError ==
    (JwtValidationFailed /\ FailingSteps = {8} /\ jwt.verify = "Json") =>
        /\ api_error.kind = "InternalServerError"
        /\ ApiError_status_code(api_error) = INTERNAL_SERVER_ERROR

\* the ApiJwt extractor could not obtain the key set: state.jwks() failed
KeySetUnavailable ==
    /\ extractor = "ApiJwt"
    /\ extracted.kind # None
    /\ calls = <<"jwks">>

\* the requests whose jwt_validate returned JwtValidationError::Jwks: the
\* refresh inside get failed
JwksErrors == {p \in Procs : pc[p] = "done" /\ loc[p].result.value = "Jwks"}

\* C14: a bearer request for which the key set cannot be obtained is rejected
\* as an internal error with status 500, not as a credential error, and the
\* error carries its detail exactly when the configured verbosity is Full;
\* this holds of the error ApiJwt builds when state.jwks() fails and of the
\* error type into_jwt_error_type gives for the Jwks error of jwt_validate.
C14_KeySetFailureIsInternalError ==
    /\ KeySetUnavailable =>
          /\ api_error.kind = "InternalServerError"
          /\ ApiError_status_code(api_error) = INTERNAL_SERVER_ERROR
          /\ api_error.error # None <=> error_verbosity = "Full"
    /\ \A p \in JwksErrors : \A v \in ErrorVerbosity :
          LET type == into_jwt_error_type(loc[p].result)
              e    == JwtError_new_Invalid(v, type.err)
          IN /\ e.kind = "InternalServerError"
             /\ ApiError_status_code(e) = INTERNAL_SERVER_ERROR

\* C15: Basic-auth credentials that were extracted and then refused by the
\* provider are rejected with BasicAuthErrorType::Invalid and status 403.
C15_RefusedBasicAuthIsForbidden ==
    (extractor = "ApiAuthenticatedBasicAuth" /\ extracted.kind # None
        /\ calls = <<"authenticate">> /\ ~extracted.ok) =>
        /\ api_error.kind = "BasicAuth"
        /\ api_error.type = "Invalid"
        /\ ApiError_status_code(api_error) = FORBIDDEN

\* a header value that is no text: some byte is neither visible ASCII nor a tab
NoText(value) == \E i \in DOMAIN value : value[i] \notin (32 .. 126) \cup {9}

\* the rejection is the ApiError of that kind and type, with that status
RejectedAs(kind, type, status) ==
    /\ ~extracted.ok
    /\ api_error.kind = kind
    /\ api_error.type = type
    /\ ApiError_status_code(api_error) = status

\* C16: ValidApiKey reports the first failure in the order header missing
\* (Missing, 401), value no text (InvalidChars, 401), value equal to no
\* configured key (Invalid, 403); it accepts the key, unchanged, exactly when
\* the header value equals a configured key, and calls the provider only
\* for a value it could extract.
C16_ApiKeyOrderAndAcceptance ==
    (extractor = "ValidApiKey" /\ extracted.kind # None) =>
        LET header == request.api_key IN
        /\ header = <<>> => RejectedAs("ApiKey", "Missing", UNAUTHORIZED)
        /\ (header # <<>> /\ NoText(header[1])) =>
              RejectedAs("ApiKey", "InvalidChars", UNAUTHORIZED)
        /\ (header # <<>> /\ ~NoText(header[1]) /\ header[1] \notin ApiKeys) =>
              RejectedAs("ApiKey", "Invalid", FORBIDDEN)
        /\ extracted.ok <=> (header # <<>> /\ header[1] \in ApiKeys)
        /\ extracted.ok => extracted.value = header
        /\ calls = IF header # <<>> /\ ~NoText(header[1]) THEN <<"validate">> ELSE <<>>

\* the key k3, which is not configured, is rejected with 403
C16_Witness ==
    /\ extractor = "ValidApiKey"
    /\ request.api_key = Some(<<107, 51>>)
    /\ api_error.type = "Invalid"
    /\ response # NoResponse /\ response.status = FORBIDDEN

StartsWith(value, prefix) ==
    Len(value) >= Len(prefix) /\ SubSeq(value, 1, Len(prefix)) = prefix

Remainder(value, prefix) == SubSeq(value, Len(prefix) + 1, Len(value))

\* the byte strings of the model whose base64 encoding is the value
DecodingsOf(value) == {d \in DecodedValues : b64_encode(d) = value}

BasicExtractors  == {"ApiBasicAuth", "ApiAuthenticatedBasicAuth"}
BearerExtractors == {"ApiBearerToken", "ApiJwt"}

\* C17 (Basic): the extraction reports the first failure in the order header
\* missing, value no text, value not starting with "Basic ", remainder no
\* base64, decoded bytes no UTF-8, each with status 401, and succeeds
\* otherwise.
C17_BasicOrder ==
    (extractor \in BasicExtractors /\ extracted.kind # None) =>
        LET header == request.authorization
            text   == header # <<>> /\ ~NoText(header[1])
            scheme == text /\ StartsWith(header[1], Basic \o <<SP>>)
            bytes  == DecodingsOf(Remainder(header[1], Basic \o <<SP>>))
        IN /\ header = <<>> => RejectedAs("BasicAuth", "AuthMissing", UNAUTHORIZED)
           /\ (header # <<>> /\ ~text) =>
                 RejectedAs("BasicAuth", "AuthInvalidChars", UNAUTHORIZED)
           /\ (text /\ ~scheme) => RejectedAs("BasicAuth", "InvalidBasic", UNAUTHORIZED)
           /\ (scheme /\ bytes = {}) => RejectedAs("BasicAuth", "Decode", UNAUTHORIZED)
           /\ (scheme /\ \E d \in bytes : ~from_utf8_ok(d)) =>
                 RejectedAs("BasicAuth", "AuthInvalidUTF8", UNAUTHORIZED)
           /\ (scheme /\ \E d \in bytes : from_utf8_ok(d)) =>
                 (extracted.ok \/ calls = <<"authenticate">>)

\* C17 (Bearer): the extraction reports the first failure in the order header
\* missing, value no text, value not starting with "Bearer ", each with
\* status 401; otherwise it yields the rest of the value unchanged, without
\* any decoding.
C17_BearerOrder ==
    (extractor \in BearerExtractors /\ extracted.kind # None) =>
        LET header == request.authorization
            text   == header # <<>> /\ ~NoText(header[1])
            scheme == text /\ StartsWith(header[1], Bearer \o <<SP>>)
        IN /\ header = <<>> => RejectedAs("Bearer", "AuthMissing", UNAUTHORIZED)
           /\ (header # <<>> /\ ~text) =>
                 RejectedAs("Bearer", "AuthInvalidChars", UNAUTHORIZED)
           /\ (text /\ ~scheme) => RejectedAs("Bearer", "InvalidBearer", UNAUTHORIZED)
           /\ (scheme /\ extractor = "ApiBearerToken") =>
                 /\ extracted.ok
                 /\ extracted.value = Some(Remainder(header[1], Bearer \o <<SP>>))

\* C17: both orders
C17_AuthorizationExtractionOrder == C17_BasicOrder /\ C17_BearerOrder

\* a Basic value whose base64 decodes to bytes that are no UTF-8, rendered
C17_Witness ==
    /\ extractor = "ApiBasicAuth"
    /\ request.authorization = Some(Basic \o <<SP>> \o b64_encode(<<97, COLON, 195>>))
    /\ api_error.type = "AuthInvalidUTF8"
    /\ response # NoResponse /\ response.status = UNAUTHORIZED

\* usernames (no colon) and passwords (any text) of the round trip
Usernames == SeqsUpTo({97, 98}, MaxCredLen) \cup {<<195, 169>>}
Passwords == SeqsUpTo({97, 98, COLON}, MaxCredLen)

BasicHeader(decoded) == Some(Basic \o <<SP>> \o b64_encode(decoded))

\* C18: ApiBasicAuth gives back the username and the password of
\* "Basic " + base64(username ":" password) for every username without a
\* colon and every password; a decoded value without a colon is the username,
\* and its password is absent, which differs from a present empty password.
C18_BasicAuthRoundTrip ==
    (extractor = "ApiBasicAuth" /\ extracted.kind # None) =>
        /\ \A username \in Usernames, password \in Passwords :
              request.authorization = BasicHeader(username \o <<COLON>> \o password) =>
                  /\ extracted.ok
                  /\ extracted.value = Some(UsedBasicAuth(username, Some(password)))
        /\ \A username \in Usernames :
              request.authorization = BasicHeader(username) =>
                  /\ extracted.ok
                  /\ extracted.value = Some(UsedBasicAuth(username, <<>>))
                  /\ extracted.value # Some(UsedBasicAuth(username, Some(<<>>)))

\* the password ":" came back for the user a
C18_Witness ==
    /\ extractor = "ApiBasicAuth"
    /\ request.authorization = BasicHeader(<<97, COLON, COLON>>)
    /\ extracted.ok
    /\ extracted.value = Some(UsedBasicAuth(<<97>>, Some(<<COLON>>)))

\* what the inner extractor of a composed extractor returns for the request
Extraction(ex, verbosity, req) ==
    CASE ex = "ValidApiKey" -> UsedApiKey_from_request_parts(verbosity, req)
      [] ex = "ApiAuthenticatedBasicAuth" -> ApiBasicAuth_from_req_parts(verbosity, req)
      [] OTHER -> ApiBearerToken_from_request_parts(verbosity, req)

ComposedExtractors == {"ValidApiKey", "ApiAuthenticatedBasicAuth", "ApiJwt"}

\* C19: when the extraction of a composed extractor fails, its error is
\* returned unchanged and nothing of the verification has run: no call of
\* the allow-list, of the credential provider or of the key set, and no
\* token validation.
C19_NoVerificationAfterFailedExtraction ==
    (extractor \in ComposedExtractors /\ extracted.kind # None) =>
        LET inner == Extraction(extractor, error_verbosity, request) IN
        /\ ~inner.ok => /\ ~extracted.ok
                        /\ api_error = inner.err
                        /\ calls = <<>>
                        /\ jwt_result = NoResult
        /\ inner.ok => calls # <<>>

\* the authenticated Basic extractor returned a decoding failure and the
\* provider was not called
C19_Witness ==
    /\ extractor = "ApiAuthenticatedBasicAuth"
    /\ extracted.kind # None /\ ~extracted.ok
    /\ api_error.kind = "BasicAuth" /\ api_error.type = "Decode"
    /\ calls = <<>>

\* the bearer value of a well-formed token of a key of the snapshot whose
\* signature is good and whose audience is none of the configured ones
AudienceMismatch ==
    /\ extractor = "ApiJwt"
    /\ extracted.kind # None
    /\ \E k \in 1 .. Len(jwks) :
          /\ request.authorization = Some(Bearer \o <<SP, 104, 48 + jwks[k].kid, 97>>)
          /\ jwks[k].family = "RSA" /\ jwks[k].components_ok
    /\ jwt_result # NoResult
    /\ jwt_result.value = "TokenInvalid" /\ jwt_result.source = "InvalidAudience"

\* C20: a JwtError of type Invalid or ExpiredSignature has status 401 and
\* one of type Forbidden has status 403; a well-signed token whose audience
\* is not configured is rejected as Jwt/Invalid with status 401, and at Full
\* the reason in the body of the response names the audience failure.
C20_JwtStatusesAndAudienceDetail ==
    /\ \A v \in ErrorVerbosity :
          /\ ApiError_status_code(JwtError_new(v, "Invalid")) = UNAUTHORIZED
          /\ ApiError_status_code(JwtError_new(v, "ExpiredSignature")) = UNAUTHORIZED
          /\ ApiError_status_code(JwtError_new(v, "Forbidden")) = FORBIDDEN
    /\ api_error.kind = "Jwt" =>
          /\ api_error.type \in {"Invalid", "ExpiredSignature"}
          /\ ApiError_status_code(api_error) = UNAUTHORIZED
          /\ (response # NoResponse /\ error_verbosity # "None") =>
                response.status = UNAUTHORIZED
    /\ AudienceMismatch =>
          /\ RejectedAs("Jwt", "Invalid", UNAUTHORIZED)
          /\ (error_verbosity = "Full" /\ response # NoResponse) =>
                /\ response.status = UNAUTHORIZED
                /\ response.body.error.type = "Invalid"
                /\ response.body.error.reason =
                       "JWT is invalid: Error validating token: InvalidAudience"

\* the audience failure was rendered at Full
C20_Witness ==
    /\ AudienceMismatch
    /\ extractor = "ApiJwt"
    /\ error_verbosity = "Full"
    /\ response # NoResponse /\ response.status = UNAUTHORIZED
    /\ response.body.error.reason = "JWT is invalid: Error validating token: InvalidAudience"

(***************************************************************************)
(*                    THE CHALLENGE HEADER (C21)                           *)
(***************************************************************************)

\* the values of the WWW-Authenticate header of the response
Challenges == {h[2] : h \in {h \in response.headers : h[1] = "WWW-Authenticate"}}

ChallengeOf(kind) ==
    CASE kind = "BasicAuth"         -> {"Basic"}
      [] kind \in {"Bearer", "Jwt"} -> {"Bearer"}
      [] OTHER                      -> {}

\* C21 as stated: the response of a Basic-auth failure carries
\* WWW-Authenticate: Basic, the response of a bearer or JWT failure carries
\* WWW-Authenticate: Bearer, and no other response carries the header.
C21_ChallengeAtEveryLevel ==
    response # NoResponse => Challenges = ChallengeOf(api_error.kind)

\* C21 amended: at every verbosity other than None the response of a
\* Basic-auth failure carries WWW-Authenticate: Basic, the response of a
\* bearer or JWT failure carries WWW-Authenticate: Bearer, and the response of
\* any other kind carries no such header; at None no response carries it.
C21_ChallengeExceptNone ==
    response # NoResponse =>
        /\ api_error.verbosity # "None" => Challenges = ChallengeOf(api_error.kind)
        /\ api_error.verbosity = "None" => response.headers = {}

\* a JWT failure answered with the Bearer challenge
C21_Witness ==
    /\ response # NoResponse
    /\ api_error.kind = "Jwt"
    /\ api_error.verbosity = "StatusCode"
    /\ Challenges = {"Bearer"}

(***************************************************************************)
(*                    THE NOT-BEFORE CHECK (C22)                           *)
(***************************************************************************)

\* the validation failed because the not-before time lies in the future
Immature(result) ==
    /\ result # NoResult /\ ~result.ok
    /\ result.value = "TokenInvalid" /\ result.source = "ImmatureSignature"

\* ApiJwt validated a token whose only defect is its not-before time
ImmatureTokenDecoded ==
    /\ extractor = "ApiJwt"
    /\ jwt # NoToken /\ jwt.verify = "ImmatureSignature"
    /\ jwt_result # NoResult
    /\ jwt_result.ok \/ jwt_result.value = "TokenInvalid"

\* the requests whose jwt_validate got as far as decode with such a token
ImmatureTokensValidated ==
    {p \in Procs : /\ pc[p] = "done"
                   /\ loc[p].token.verify = "ImmatureSignature"
                   /\ loc[p].result.ok \/ loc[p].result.value = "TokenInvalid"}

\* C22: a token whose not-before time lies in the future is rejected for
\* that reason exactly when the configured validate_nbf flag is set, by the
\* validation of ApiJwt and by jwt_validate.
C22_NotBeforeCheckedIffConfigured ==
    /\ ImmatureTokenDecoded => (Immature(jwt_result) <=> validate_nbf)
    /\ \A p \in ImmatureTokensValidated :
          Immature(loc[p].result) <=> validate_nbf

(***************************************************************************)
(*                       LOG RECORDS (C23)                                 *)
(***************************************************************************)

Levels(records) == {records[i] : i \in DOMAIN records}

\* C23: a rejection is accompanied by a log record, at every verbosity: one
\* of level error when the error is an internal server error, one of level
\* warn when it is a credential rejection.
C23_EveryRejectionIsLogged ==
    (extracted.kind # None /\ ~extracted.ok) =>
        /\ api_error.kind = "InternalServerError" => "error" \in Levels(logs)
        /\ api_error.kind # "InternalServerError" => "warn" \in Levels(logs)

\* an undecodable Basic value was rejected at verbosity None with a warning
C23_Witness ==
    /\ extractor = "ApiBasicAuth"
    /\ error_verbosity = "None"
    /\ ~extracted.ok /\ api_error.type = "Decode"
    /\ logs = <<"warn">>

(***************************************************************************)
(*      SERVICES: the Optional extractor, the API-key layer and the        *)
(*      Basic-auth middleware in front of a handler                        *)
(***************************************************************************)

\* polls of a future that answer Pending, per request
MaxPolls == 2

OK == 200

\* the body of a handler's response; what the handler was given is kept in
\* service.handler_arg
HandlerBody == [EmptyBody EXCEPT !.shape = "handler"]

\* axum's rejection of Extension<T> when the request has no such extension
MissingExtensionBody == [EmptyBody EXCEPT !.shape = "missing extension"]

\* X::from_request_parts for the extractors X put inside Optional: what it
\* returns and the calls it makes
FromRequestParts(ex, verbosity, req, jwks_result, set, nbf) ==
    CASE ex = "ValidApiKey" -> ValidApiKey_from_request_parts(verbosity, req)
      [] ex = "ApiAuthenticatedBasicAuth" ->
            ApiAuthenticatedBasicAuth_from_request_parts(verbosity, req)
      [] ex = "ApiJwt" ->
            ApiJwt_from_request_parts(verbosity, req, jwks_result, set, nbf)

OptionalInner == {"ValidApiKey", "ApiAuthenticatedBasicAuth", "ApiJwt"}

\* mutant: the failure of the inner extractor rejects the request
Optional_from_request_parts_Strict(inner) ==
    IF inner.ok THEN [Ok(inner.value) EXCEPT !.logs = inner.logs] ELSE inner

\* Optional::from_request_parts: X::from_request_parts(parts, state).await.ok()
\* inside Ok; the rejection type is Infallible
Optional_from_request_parts(inner) == [Ok(inner.value) EXCEPT !.logs = inner.logs]

\* ---- route/api_key_protected --------------------------------------------

Routes == {"/", "/do_not_use_extension", "/valid_api_key_from_extension"}

\* Extension<T>::from_request_parts: the extension of that type, if any
Extension_from_request_parts(type, extensions) ==
    LET found == {e \in extensions : e[1] = type} IN
    IF found = {} THEN <<>> ELSE Some((CHOOSE e \in found : TRUE)[2])

\* what a run of the layer and of what is behind it comes to
Served(result, made, extensions, ran, arg, answer) ==
    [result |-> result, calls |-> made, extensions |-> extensions,
     handler_ran |-> ran, handler_arg |-> arg, response |-> answer]

\* the routes of api_key_protected::app: two handlers take nothing from the
\* request and one takes Extension<ValidApiKey>
ApiKeyProtected_route(route, extensions) ==
    IF route = "/valid_api_key_from_extension"
    THEN LET valid_api_key == Extension_from_request_parts("ValidApiKey", extensions) IN
         IF valid_api_key = <<>>
         THEN [ran |-> FALSE, arg |-> <<>>,
               response |-> Response(INTERNAL_SERVER_ERROR, {}, MissingExtensionBody)]
         ELSE [ran |-> TRUE, arg |-> valid_api_key,
               response |-> Response(OK, {}, HandlerBody)]
    ELSE [ran |-> TRUE, arg |-> <<>>, response |-> Response(OK, {}, HandlerBody)]

\* mutant: the next layers run although the key was rejected
validate_api_key_and_put_as_extension_RunNext(verbosity, req, route) ==
    LET run == ValidApiKey_from_request_parts(verbosity, req)
        extensions == IF run.result.ok THEN {<<"UsedApiKey", run.result.value[1]>>} ELSE {}
        next == ApiKeyProtected_route(route, extensions)
    IN Served(run.result, run.calls, extensions, next.ran, next.arg, next.response)

\* validate_api_key_and_put_as_extension under from_fn_with_state: the
\* ValidApiKey argument is extracted first and its rejection is the response;
\* otherwise the key is inserted into the extensions and next.run(req) runs
\* the route
validate_api_key_and_put_as_extension(verbosity, req, route) ==
    LET run == ValidApiKey_from_request_parts(verbosity, req) IN
    IF ~run.result.ok
    THEN Served(run.result, run.calls, {}, FALSE, <<>>, into_response(run.result.err))
    ELSE LET extensions == {<<"UsedApiKey", run.result.value[1]>>}
             next == ApiKeyProtected_route(route, extensions)
         IN Served(run.result, run.calls, extensions, next.ran, next.arg, next.response)

\* ---- middleware/basic_auth -----------------------------------------------

admin == <<97, 100, 109, 105, 110>>

\* DummyAuthProvider::authenticate
DummyAuthProvider_authenticate(username, password) == username = admin

\* requests sent through the Basic-auth middleware
MiddlewareAuthorizations ==
    BasicAuthorizations
        \cup {Some(Basic \o <<SP>> \o b64_encode(admin)),
              Some(Basic \o <<SP>> \o b64_encode(admin \o <<COLON, 97>>))}

ServiceKinds == {"Optional", "ApiKeyLayer", "BasicAuth"}

ServiceRoutes(kind) ==
    CASE kind = "Optional"    -> OptionalInner
      [] kind = "ApiKeyLayer" -> Routes
      [] kind = "BasicAuth"   -> {"/"}

ServiceRequests(kind, route) ==
    CASE kind = "Optional"    -> Requests(route)
      [] kind = "ApiKeyLayer" -> Requests("ValidApiKey")
      [] kind = "BasicAuth"   -> {Request(<<>>, a) : a \in MiddlewareAuthorizations}

InitService ==
    /\ error_verbosity \in ErrorVerbosity
    /\ failure = NoFailure
    /\ api_error = NoError
    /\ response = NoResponse
    /\ jwks \in AuthJwkSets
    /\ jwt = NoToken
    /\ jwt_result = NoResult
    /\ validate_nbf = TRUE
    /\ logs = <<>>
    /\ service = NoService
    /\ AuthIdle /\ CacheIdle

\* a request arrives at a service
Arrive(kind, route, req) ==
    /\ service = NoService
    /\ service' = Service(kind, route)
    /\ request' = req
    /\ UNCHANGED <<validate_nbf, logs, extractor, calls, extracted, error_vars, jwt_vars,
                   cache_vars>>

\* a handler taking Optional<X>: the extractor, then the handler
HandleOptional(jwks_result) ==
    /\ service.kind = "Optional"
    /\ ~service.done
    /\ LET inner == FromRequestParts(service.route, error_verbosity, request, jwks_result,
                                     jwks, validate_nbf)
           optional == Optional_from_request_parts(inner.result)
       IN /\ service' = [service EXCEPT !.handler_ran = optional.ok,
                                        !.handler_arg = optional.value,
                                        !.done = TRUE]
          /\ api_error' = optional.err
          /\ response' = IF optional.ok THEN Response(OK, {}, HandlerBody)
                         ELSE into_response(optional.err)
          /\ calls' = inner.calls
          /\ logs' = optional.logs
    /\ UNCHANGED <<validate_nbf, request, extractor, extracted, error_verbosity, failure,
                   jwt_vars, cache_vars>>

\* a request to a route of api_key_protected::app
HandleApiKeyProtected ==
    /\ service.kind = "ApiKeyLayer"
    /\ ~service.done
    /\ LET served == validate_api_key_and_put_as_extension(error_verbosity, request,
                                                           service.route)
       IN /\ service' = [service EXCEPT !.extensions = served.extensions,
                                        !.handler_ran = served.handler_ran,
                                        !.handler_arg = served.handler_arg,
                                        !.done = TRUE]
          /\ api_error' = served.result.err
          /\ response' = served.response
          /\ calls' = served.calls
          /\ logs' = served.result.logs
    /\ UNCHANGED <<validate_nbf, request, extractor, extracted, error_verbosity, failure,
                   jwt_vars, cache_vars>>

\* BasicAuth::call
BasicAuth_call ==
    /\ service.kind = "BasicAuth"
    /\ service.future = None
    /\ LET basic_auth == ApiBasicAuth_from_req_parts("Full", request) IN
       /\ service' =
             IF basic_auth.ok
             THEN [service EXCEPT !.extensions = {<<"BasicAuthToken", <<>>>>},
                                  !.inner_called = TRUE,
                                  !.future = "Future",
                                  !.state = "Authorizing",
                                  !.auth = "pending",
                                  !.credential = basic_auth.value]
             ELSE [service EXCEPT !.extensions = {<<"BasicAuthToken", <<>>>>},
                                  !.future = "ApiError"]
       /\ api_error' = basic_auth.err
       /\ logs' = basic_auth.logs
    /\ UNCHANGED <<validate_nbf, auth_vars, error_verbosity, failure, response, jwt_vars,
                   cache_vars>>

\* future.poll(cx) of the inner service's future: Pending, or Ready with the
\* handler's response
PollInner(ready) ==
    /\ ~ready => service.polls < MaxPolls
    /\ service' = [service EXCEPT !.state = "Authorized",
                                  !.auth = "true",
                                  !.inner_polled = TRUE,
                                  !.handler_ran = ready,
                                  !.done = ready,
                                  !.polls = IF ready THEN @ ELSE @ + 1]
    /\ response' = IF ready THEN Response(OK, {}, HandlerBody) ELSE response
    /\ UNCHANGED <<api_error, logs>>

\* ResponseFuture::poll
ResponseFuture_poll(auth_ready, inner_ready) ==
    /\ service.kind = "BasicAuth"
    /\ service.future # None
    /\ ~service.done
    /\ CASE service.future = "ApiError" ->
               /\ response' = into_response(api_error)
               /\ service' = [service EXCEPT !.done = TRUE]
               /\ UNCHANGED <<api_error, logs>>
         [] service.future = "Future" /\ service.state = "Authorizing" ->
               IF ~auth_ready
               THEN /\ service.polls < MaxPolls
                    /\ service' = [service EXCEPT !.polls = @ + 1]
                    /\ UNCHANGED <<api_error, response, logs>>
               ELSE IF DummyAuthProvider_authenticate(service.credential[1].username,
                                                      service.credential[1].password)
               THEN PollInner(inner_ready)
               ELSE /\ api_error' = ApiError_default
                    /\ logs' = logs \o <<"error">>
                    /\ response' = into_response(ApiError_default)
                    /\ service' = [service EXCEPT !.auth = "false", !.done = TRUE]
         [] service.future = "Future" /\ service.state = "Authorized" ->
               PollInner(inner_ready)
    /\ UNCHANGED <<validate_nbf, auth_vars, error_verbosity, failure, jwt_vars, cache_vars>>

\* the response is sent
Respond ==
    /\ service.done
    /\ service' = NoService
    /\ request' = NoRequest
    /\ api_error' = NoError
    /\ response' = NoResponse
    /\ calls' = <<>>
    /\ logs' = <<>>
    /\ UNCHANGED <<validate_nbf, extractor, extracted, error_verbosity, failure, jwt_vars,
                   cache_vars>>

NextService ==
    \/ \E kind \in ServiceKinds : \E route \in ServiceRoutes(kind) :
          \E req \in ServiceRequests(kind, route) : Arrive(kind, route, req)
    \/ \E jwks_result \in {"Ok", "JwksError"} : HandleOptional(jwks_result)
    \/ HandleApiKeyProtected
    \/ BasicAuth_call
    \/ \E auth_ready, inner_ready \in BOOLEAN : ResponseFuture_poll(auth_ready, inner_ready)
    \/ Respond

SpecService == InitService /\ [][NextService]_vars

(***************************************************************************)
(*                    PROPERTIES OF THE SERVICES                           *)
(***************************************************************************)

\* C24: a handler taking Optional<X> runs for every request and is never
\* replaced by a rejection; it is given Some(x) when X extracts x and None
\* when X fails, whatever the failure; for X = ValidApiKey it is given the
\* key exactly when the header holds a configured key.
C24_OptionalNeverRejects ==
    (service.kind = "Optional" /\ service.done) =>
        /\ service.handler_ran
        /\ response.status = OK
        /\ api_error = NoError
        /\ \E jwks_result \in {"Ok", "JwksError"} :
              LET inner == FromRequestParts(service.route, error_verbosity, request,
                                            jwks_result, jwks, validate_nbf).result
              IN /\ inner.ok => service.handler_arg = Some(inner.value)
                 /\ ~inner.ok => service.handler_arg = Some(<<>>)
        /\ service.route = "ValidApiKey" =>
              IF request.api_key # <<>> /\ request.api_key[1] \in ApiKeys
              THEN service.handler_arg = Some(request.api_key)
              ELSE service.handler_arg = Some(<<>>)

\* the key set could not be obtained and the handler ran with None
C24_Witness ==
    /\ service.kind = "Optional" /\ service.route = "ApiJwt"
    /\ service.done /\ service.handler_ran
    /\ service.handler_arg = Some(<<>>)
    /\ logs = <<"error">>
    /\ response.status = OK

\* C25: every error is built and rendered with the configured verbosity, so
\* below Full no response carries the detail of an error.
C25_ConfiguredVerbosityOnly ==
    /\ api_error # NoError => api_error.verbosity = error_verbosity
    /\ (response # NoResponse /\ error_verbosity # "Full") =>
          response.body.error.reason \in {Absent, None}

\* C26: in the Basic-auth middleware the inner service is neither called nor
\* polled unless the credentials were extracted and authenticate resolved to
\* true.
C26_InnerOnlyAfterAuthorization ==
    (service.kind = "BasicAuth" /\ (service.inner_called \/ service.inner_polled)) =>
        /\ service.credential # <<>>
        /\ service.auth = "true"

\* C27: when authenticate resolves to false the response is the Basic-auth
\* rejection BasicAuth/Invalid with the Basic challenge, not an internal
\* server error.
C27_RefusedByMiddlewareIsBasicAuthInvalid ==
    (service.kind = "BasicAuth" /\ service.done /\ service.auth = "false") =>
        /\ api_error.kind = "BasicAuth" /\ api_error.type = "Invalid"
        /\ ApiError_status_code(api_error) # INTERNAL_SERVER_ERROR
        /\ error_verbosity # "None" => <<"WWW-Authenticate", "Basic">> \in response.headers

\* the header holds a configured key
ValidKeyPresented == request.api_key # <<>> /\ request.api_key[1] \in ApiKeys

\* C30: behind validate_api_key_and_put_as_extension a handler runs only for
\* a request whose header holds a configured key, and the key in the
\* extensions is that key; for any other request no handler runs, nothing is
\* put into the extensions, and the response is the rejection of ValidApiKey.
C30_HandlerOnlyBehindValidKey ==
    (service.kind = "ApiKeyLayer" /\ service.done) =>
        /\ service.handler_ran =>
              /\ ValidKeyPresented
              /\ Extension_from_request_parts("UsedApiKey", service.extensions)
                     = request.api_key
        /\ ~ValidKeyPresented =>
              /\ ~service.handler_ran
              /\ service.extensions = {}
              /\ api_error.kind = "ApiKey"
              /\ response = into_response(
                     ValidApiKey_from_request_parts(error_verbosity, request).result.err)

\* a handler of the protected routes ran with the key k1 in the extensions
C30_Witness ==
    /\ service.kind = "ApiKeyLayer" /\ service.route = "/do_not_use_extension"
    /\ service.done /\ service.handler_ran
    /\ request.api_key = Some(<<107, 49>>)
    /\ service.extensions = {<<"UsedApiKey", <<107, 49>>>>}
    /\ response.status = OK

(***************************************************************************)
(*              THE SNAPSHOT UNDER CONCURRENT REFRESHES (C28, C29)         *)
(***************************************************************************)

\* C28: the key set in the holder is never replaced by an older key set of
\* the upstream (the versions of the upstream only grow), so no older key set
\* is ever stamped with a newer last_updated.
C28_SnapshotNeverRegresses ==
    [][holder.jwks # NoJwks => holder'.jwks >= holder.jwks]_vars

\* C29: a failed refresh leaves the holder (key set and last_updated) as it
\* was; every read that finds the age over the TTL in whole seconds starts a
\* fetch, whatever failed before, and a read that finds it within the TTL
\* starts none; a fetched key set that was parsed is only ever installed (or
\* its request dropped), and the install stamps last_updated with the time
\* of the write, so that the reads that follow within the TTL fetch nothing.
C29_StaleReadsRefetchUntilInstalled ==
    [][\A p \in Procs :
          /\ (loc[p].fetch_err = None /\ loc'[p].fetch_err # None) =>
                /\ holder' = holder
                /\ pc[p] \in {"sending", "parsing"}
          /\ (pc[p] = "get_read" /\ pc'[p] \in {"sending", "got"}) =>
                /\ pc'[p] = "sending"
                       <=> as_secs(now - holder.last_updated) > TimeToLive
                /\ holder' = holder
          /\ (pc[p] = "parsing" /\ loc[p].body # Malformed) =>
                pc'[p] \in {"parsing", "wait_write", "idle"}
          /\ (pc[p] = "wait_write") =>
                pc'[p] \in {"wait_write", "write_ts", "idle"}
          /\ (pc[p] = "write_ts" /\ pc'[p] # "write_ts") =>
                /\ pc'[p] = "got"
                /\ holder'.last_updated = now
                /\ holder'.jwks = loc[p].swapped
                /\ ~is_stale(holder'.last_updated)
      ]_vars

\* a refresh of task q failed and left the holder alone, and a refresh of
\* another task then fetched a key set and installed it at the present time
C29_Witness ==
    \E p, q \in Procs :
        /\ p # q
        /\ loc[q].fetch_err # None /\ loc[q].attempts = 1
        /\ pc[p] = "got" /\ loc[p].attempts = 1
        /\ holder.by_ts = p /\ holder.by_jwks = p
        /\ holder.last_updated = now
        /\ holder.jwks = loc[p].swapped

====
